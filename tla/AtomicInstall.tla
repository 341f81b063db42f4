--------------------------- MODULE AtomicInstall ---------------------------
(***************************************************************************)
(* What an upgrade promises, without protocol or flash: the device boots   *)
(* one complete image or nothing at all, goes from one image to another    *)
(* only through nothing, and a success is told only of the image it boots. *)
(***************************************************************************)
CONSTANTS Images, Nothing

VARIABLES
  boot,  \* the image the device boots
  told   \* the image the tool reports as installed, until it closes

Init == boot \in Images \cup {Nothing} /\ told = Nothing

Invalidate == told = Nothing /\ boot' = Nothing /\ UNCHANGED told

Install == boot = Nothing /\ boot' \in Images /\ UNCHANGED told

Tell == told = Nothing /\ boot # Nothing /\ told' = boot /\ UNCHANGED boot

Forget == told' = Nothing /\ UNCHANGED boot

Next == Invalidate \/ Install \/ Tell \/ Forget

Spec == Init /\ [][Next]_<<boot, told>>
=============================================================================
