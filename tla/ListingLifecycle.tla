--------------------------- MODULE ListingLifecycle ---------------------------
(***************************************************************************)
(* What may happen to one Discogs listing, whatever webhooks arrive and      *)
(* however the workers interleave: it is created once, for a SKU it keeps for *)
(* life; a price once positive stays so; sold is final but for removal, and   *)
(* a removed listing never comes back.  The webhook service implements this.  *)
(***************************************************************************)
CONSTANTS Listings, Skus

VARIABLE listing

(* The transitions of the status alone. *)
Moves == [ForSale |-> {"Draft", "Sold", "Expired", "Gone"},
          Draft   |-> {"For Sale", "Gone"},
          Expired |-> {"For Sale", "Draft", "Gone"},
          Sold    |-> {"Gone"}]

MayBecome(status) ==
    CASE status = "For Sale" -> Moves.ForSale
      [] status = "Draft"    -> Moves.Draft
      [] status = "Expired"  -> Moves.Expired
      [] status = "Sold"     -> Moves.Sold
      [] OTHER               -> {}

Create(l) ==
    /\ listing[l].status = "Unused"
    /\ \E status \in {"For Sale", "Draft"}, sku \in Skus, priced \in BOOLEAN :
         listing' = [listing EXCEPT ![l] = [status |-> status, sku |-> sku, priced |-> priced]]

Change(l) ==
    /\ listing[l].status # "Unused"
    /\ \E status \in MayBecome(listing[l].status) \union {listing[l].status},
          priced \in {listing[l].priced, TRUE} :
         listing' = [listing EXCEPT ![l].status = status, ![l].priced = priced]

Init == \A l \in Listings : listing[l].status # "Unused" => listing[l].sku \in Skus

Next == \E l \in Listings : Create(l) \/ Change(l)

Spec == Init /\ [][Next]_listing
=============================================================================
