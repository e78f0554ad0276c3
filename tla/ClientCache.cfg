\* Four keys for a cache of two blocks.
CONSTANTS
  k1 = k1
  k2 = k2
  k3 = k3
  k4 = k4
  Keys = {k1, k2, k3, k4}
  cache_size = 2
  MaxList = 6
SPECIFICATION CacheSpec
INVARIANTS Evictable ExactUntilReadded
