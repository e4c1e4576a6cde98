--------------------------------- MODULE Website ---------------------------------
(***************************************************************************)
(* What the parts of the owners' website have in common: the merchants,    *)
(* each with an email of its own (app/db/models.py, Merchant.email), and   *)
(* the null of a column, a key or a request.                               *)
(***************************************************************************)
EXTENDS Integers, FiniteSets

CONSTANTS Merchants, None

ASSUME WebsiteAssumption == None \notin Merchants
=============================================================================
