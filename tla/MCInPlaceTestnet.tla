-------------------------- MODULE MCInPlaceTestnet --------------------------
(* Instances of InPlaceTestnet for TLC. *)
EXTENDS InPlaceTestnet

CONSTANTS alice, bob, empty

MCOneDelegation == <<1>>
MCKeyOf == <<11, 12>>
MCLists == {<<empty>>, <<alice>>, <<alice, bob, alice>>, <<bob, empty>>}
=============================================================================
