------------------------------ MODULE Monitor ------------------------------
(***************************************************************************)
(* The four checkDownloadingStateFunc closures of channel.go: what each    *)
(* download channel decides about a running download at a tick of its      *)
(* monitor loop.  An observation o abstracts what the closure reads:       *)
(*                                                                         *)
(*   cancelled     task.cancelFlag                                         *)
(*   oversize      SizeLimit > 0 and BytesComplete() > SizeLimit           *)
(*   expired       time.Now().Unix() > ExpireTime                          *)
(*   othersWaiting task.channel.idleSize() # 0                             *)
(*   elapsed       Response.Duration(), in seconds                         *)
(*   speed         Response.BytesPerSecond(): "none" is below 1 B/s,       *)
(*                 "slow" below unpauseFastChannelSpeedLimit               *)
(***************************************************************************)
EXTENDS Integers

NoSpeedTime           == 5
LowSpeedTime          == 15
RandomDownloadingTime == 300

Speeds == {"none", "slow", "fast"}

Observation ==
  [cancelled : BOOLEAN, oversize : BOOLEAN, expired : BOOLEAN,
   othersWaiting : BOOLEAN, elapsed : Nat, speed : Speeds]

BrokenType ==
  {"no_broken", "broken_expire", "broken_sizeLimit", "broken_noSpeed",
   "broken_pause", "broken_lowSpeed", "broken_cancel"}

Stalled(o, seconds) == o.elapsed > seconds /\ o.speed = "none"

\* Each channel's own rules, past the cancel and size checks all four share.
QuickState(o) ==
  IF o.expired THEN "broken_expire"
  ELSE IF o.othersWaiting /\ Stalled(o, NoSpeedTime) THEN "broken_noSpeed"
  ELSE "no_broken"

RandomState(o) ==
  IF ~o.othersWaiting THEN "no_broken"
  ELSE IF Stalled(o, NoSpeedTime) THEN "broken_noSpeed"
  ELSE IF o.elapsed > RandomDownloadingTime THEN "broken_pause"
  ELSE "no_broken"

UnpauseFastState(o) ==
  IF Stalled(o, NoSpeedTime) THEN "broken_noSpeed"
  ELSE IF o.elapsed > LowSpeedTime /\ o.speed # "fast" THEN "broken_lowSpeed"
  ELSE "no_broken"

UnpauseSlowState(o) ==
  IF o.othersWaiting /\ Stalled(o, LowSpeedTime) THEN "broken_noSpeed"
  ELSE "no_broken"

CheckDownloadingState(ch, o) ==
  IF o.cancelled THEN "broken_cancel"
  ELSE IF o.oversize THEN "broken_sizeLimit"
  ELSE CASE ch = "quick"       -> QuickState(o)
         [] ch = "random"      -> RandomState(o)
         [] ch = "unpauseFast" -> UnpauseFastState(o)
         [] ch = "unpauseSlow" -> UnpauseSlowState(o)
=============================================================================
