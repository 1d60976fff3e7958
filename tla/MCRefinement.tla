---- MODULE MCRefinement ----
(* The instance of MCCustomerDim, for the refinement. *)
EXTENDS MCCustomerDim, CustomerDimRefinement

ASSUME TheFeedSpellsOneWay == FeedSpelling
====
