------------------------------- MODULE OpcuaFeed -------------------------------
(***************************************************************************)
(* The OPC UA subscribe mode implements ChangeFeed.  A source is a client; *)
(* what was collected is what was ever sent into client.subscription.      *)
(* Hidden are connections and their loss, the steps of the goroutines, the *)
(* queues of the server, and what a Fetch has drained and not published.   *)
(***************************************************************************)
EXTENDS OpcuaSubscribe

Feed == INSTANCE ChangeFeed WITH
  Source    <- Clients,
  nodeOf    <- nodesToCollect,
  collected <- responses,
  split     <- abandoned # {}

(* Whatever Fetch, the subscribeTo goroutines and the server do, readers see a
   feed: values under the name of their node, in order, each collected once
   until a closeConnection is cut short, and reported from the front. *)
ImplementsFeed == Feed!Spec

=============================================================================
