-------------------------- MODULE MCWebhookDelivery --------------------------
(* A model-checking instance of WebhookDelivery: hooks and calls are told  *)
(* apart by nothing but their names.                                       *)
EXTENDS WebhookDelivery, TLC

Symmetry == Permutations(Hooks) \cup Permutations(Calls)

=============================================================================
