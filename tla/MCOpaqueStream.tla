--------------------------- MODULE MCOpaqueStream ---------------------------
EXTENDS OpaqueStream

\* Any function of a chunk's contents may stand for the bits of its hash.
SomeCheck(key) == (3 * key.isum.a + key.isum.b) % 5
=============================================================================
