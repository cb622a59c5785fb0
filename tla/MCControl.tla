------------------------------ MODULE MCControl ------------------------------
(***************************************************************************)
(* Values for checking the protocols of the control plane with TLC: of     *)
(* Authorization the distribution to Homes.                                *)
(***************************************************************************)
EXTENDS ControlPlane, TLC

CONSTANTS
    r1, r2, e1,         \* Relays, an endpoint
    h1, c1, c2,         \* a Home; a credential, connections of a Home
    p1, p2,             \* processes of one Travel identity
    t1, t2,             \* connections of one Travel
    i1, i2, o1,         \* global Homes, an operator
    a1, a2, g1, g2      \* approvals at one Home; catalogs

\* One Relay listens on a wildcard address, the other one knows its address.
MCFirstAddresses == r1 :> Absent @@ r2 :> e1

\* A signed snapshot: deployment trust, epoch and generation, and the Relays it lists.
Signed(trust, epoch, generation, relays) ==
    [trust |-> trust, epoch |-> epoch, generation |-> generation, relays |-> relays]

MCSnapshots ==
    {Signed(1, 1, 1, {r1}), Signed(1, 1, 2, {r1, r2}), Signed(2, 2, 3, {r2})}

MCOldFile ==
    [trust |-> 1, epoch |-> 1, generation |-> 1, cached |-> Signed(1, 1, 1, {r1})]
=============================================================================
