------------------------------- MODULE MCCatalog -------------------------------
(* A reader of /bl and one of /exchange; three products on pages of two, and one    *)
(* of another status than the one asked for.                                    *)
EXTENDS Catalog

CONSTANTS p1, p2, p3, p4

MCInventories == {<<p1, p4, p2, p3>>, <<p2, p3>>}
MCSelections == {{}, {p3}}
=============================================================================
