--------------------------- MODULE MCTieredCache ---------------------------
(***************************************************************************)
(* A small instance of TieredCache: "brief" is stored with a ttl below     *)
(* the cache-wide one, "long" with a ttl above it.  Ages 0..2 are reached, *)
(* enough to outlive each lifetime.                                        *)
(***************************************************************************)
EXTENDS TieredCache

MCTwoValues == {"brief", "long"}
MCTwoTTLOf == [brief |-> 1, long |-> 3]
=============================================================================
