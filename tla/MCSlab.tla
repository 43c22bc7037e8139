------------------------------- MODULE MCSlab -------------------------------
\* Two slabs_cache headers to a slab, two caches to a slab of caches_cache, slabs
\* of two objects and of one.
EXTENDS Slab
MCPerSlab == <<2, 2, 2, 1>>
=============================================================================
