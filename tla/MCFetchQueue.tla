---------------------------- MODULE MCFetchQueue ----------------------------
(* The front end, for model checking; the .cfg files give every constant.  *)
EXTENDS FetchQueue
=============================================================================
