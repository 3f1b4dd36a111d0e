-------------------------------- MODULE MCStash --------------------------------
\* One kind of item, of two cells; the player has one in the stash and one in the backpack.
EXTENDS Stash, TLC

CONSTANTS boots

MCPath     == {boots}
MCCategory == boots :> "Speed"
MCSize     == boots :> 2
MCOne      == boots :> 1
MCNone     == boots :> 0
================================================================================
