---------------------------- MODULE MCLazySource ----------------------------
EXTENDS LazySource

\* Bounds: where cursors start and how long they are.
CONSTANTS Offsets, Sizes

MCCursors == [offset : Offsets, size : Sizes]
=============================================================================
