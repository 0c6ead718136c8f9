-------------------------- MODULE MCCacheManager --------------------------
EXTENDS CacheManager

CONSTANTS root, c1, other, exiting, returning
=============================================================================
