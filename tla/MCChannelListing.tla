-------------------------- MODULE MCChannelListing --------------------------
(* A bounded instance of ChannelListing, its constants numbers given in the  *)
(* .cfg: pages of two, three of them at most.                                *)
EXTENDS ChannelListing
=============================================================================
