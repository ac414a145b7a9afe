------------------------------ MODULE MCOrderSync ------------------------------
(* Two orders on pages of one, and updates of every kind.                        *)
EXTENDS OrderSync

CONSTANTS o1, o2, NoStatusAsked

MCStatuses == {"New", "Paid", "Shipped"}
MCNextStatus == [New |-> {"Paid"}, Paid |-> {"Shipped"}, Shipped |-> {}]

U(kind, want, tracking, comment, ids) ==
    [kind |-> kind, want |-> want, tracking |-> tracking, comment |-> comment, ids |-> ids]

MCUpdates == {
    U("paid", "Paid", FALSE, FALSE, <<o1, o2>>),
    U("paid", NoStatusAsked, FALSE, TRUE, <<o1>>),
    U("status", "Shipped", TRUE, FALSE, <<o1>>),
    U("status", NoStatusAsked, FALSE, TRUE, <<o1>>),
    U("delivery_number", NoStatusAsked, FALSE, FALSE, <<o1>>),
    U("direct", "Shipped", FALSE, TRUE, <<o1>>),
    U("direct", NoStatusAsked, FALSE, FALSE, <<o2>>),
    U("delivery_number", NoStatusAsked, TRUE, FALSE, <<o1>>)}
=============================================================================
