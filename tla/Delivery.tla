------------------------------ MODULE Delivery -------------------------------
(***************************************************************************)
(* What the camera and its backend promise together, with no files, locks  *)
(* or requests in it: frames enter a log, the log is stored by the backend *)
(* in order and without gaps, and the device forgets only what is stored.  *)
(***************************************************************************)
EXTENDS Integers

VARIABLES
  logged,    \* frames enqueued by the camera
  stored,    \* how many of them, oldest first, the backend holds
  archived   \* how many of them the camera no longer pushes

DeliveryVars == <<logged, stored, archived>>

DeliveryInit == logged = 0 /\ stored = 0 /\ archived = 0

Enqueue == logged' = logged + 1 /\ UNCHANGED <<stored, archived>>
Store == stored < logged /\ stored' = stored + 1 /\ UNCHANGED <<logged, archived>>
Archive == archived < stored /\ archived' = archived + 1 /\ UNCHANGED <<logged, stored>>

DeliveryNext == Enqueue \/ Store \/ Archive

DeliverySpec == DeliveryInit /\ [][DeliveryNext]_DeliveryVars
=============================================================================
