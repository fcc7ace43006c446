-------------------------------- MODULE Asset --------------------------------
(***************************************************************************)
(* What the catalogue promises of one client-keyed asset, whatever the     *)
(* transport: it is absent, then uploading, then complete; when it becomes *)
(* complete its readers get one content, and go on getting that one.       *)
(***************************************************************************)
CONSTANTS Contents,     \* the plaintexts that may be uploaded
          Nothing       \* what a reader gets before the asset is complete

VARIABLES state, readable

Init == state = "absent" /\ readable = Nothing

Begin == state = "absent" /\ state' = "uploading" /\ UNCHANGED readable

Publish(c) == state = "uploading" /\ state' = "complete" /\ readable' = c

Next == Begin \/ \E c \in Contents : Publish(c)

Spec == Init /\ [][Next]_<<state, readable>>
=============================================================================
