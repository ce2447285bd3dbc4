-------------------------------- MODULE Bitrate --------------------------------
(***************************************************************************)
(* The arithmetic of the congestion loop of voice.js, in bits per second:  *)
(* the budget of a roster, one step of the adaptive target and of the      *)
(* learned ceiling, the motion latch of a shared screen, and the encoding  *)
(* shape a target maps to. Zero stands for a field that is undefined.      *)
(* A report is what readUplinkSignals makes of a getStats answer: lossOk   *)
(* (at most LOSS_OK), linkBad (loss or round trip at its stress limit),    *)
(* limit (what qualityLimitationReason names) and fps (-1 for none).       *)
(***************************************************************************)
EXTENDS Integers, FiniteSetsExt

Least == 150000                                   \* MIN_VIDEO_BITRATE_BPS
Ceiling(screen) == IF screen THEN 2500000 ELSE 800000
Total(screen) == IF screen THEN 4500000 ELSE 1600000
Clamp(x, top) == Max({Least, Min({top, x})})
BitrateCapFor(n, screen) == Clamp(Total(screen) \div Max({1, n - 1}), Ceiling(screen))

ClimbAfter == 4                                   \* CLIMB_AFTER_HEALTHY
UplinkStressed(r) == r.linkBad \/ r.limit = "cpu"
Settled(streak) == streak >= ClimbAfter

CongestionTarget(prev, top, r, streak, screen) ==
  Clamp(CASE UplinkStressed(r) -> (prev * 3) \div 4
          [] ~UplinkStressed(r) /\ r.lossOk /\ Settled(streak) /\ r.limit = "none"
               -> prev + (IF screen THEN 150000 ELSE 40000)
          [] OTHER -> prev, top)

\* Mutated form: a busy encoder lowers the learned ceiling too.
SoftCeilingLearnsCpu(prev, hard, brokeAt, r, streak, screen) ==
  LET soft == IF prev = 0 THEN hard ELSE prev
  IN  Clamp(IF UplinkStressed(r) THEN Min({soft, (brokeAt * 85) \div 100}) ELSE soft, hard)

SoftCeilingFor(prev, hard, brokeAt, r, streak, screen) ==
  LET soft == IF prev = 0 THEN hard ELSE prev
  IN  Clamp(CASE r.linkBad -> Min({soft, (brokeAt * 85) \div 100})
              [] ~r.linkBad /\ Settled(streak) -> soft + (IF screen THEN 20000 ELSE 5000)
              [] OTHER -> soft, hard)

\* The latch goes over after 2 fast intervals, back after 3 slow ones.
DetectScreenMotion(s, fps) ==
  LET counts == IF s.active THEN fps <= 6 ELSE fps >= 14
      ticks == IF fps >= 0 /\ counts THEN s.ticks + 1 ELSE 0
      over == ticks >= (IF s.active THEN 3 ELSE 2)
  IN  [active |-> s.active # over, ticks |-> IF over THEN 0 ELSE ticks]

VideoScaleForTarget(target, screen) ==
  CASE target >= (IF screen THEN 1600000 ELSE 500000) -> 1
    [] target < (IF screen THEN 600000 ELSE 300000) -> 4
    [] OTHER -> 2

\* A coarser picture at once, a finer one a tier at a time and with a margin.
ResolutionWithHysteresis(prev, target, screen) ==
  LET want == VideoScaleForTarget(target, screen)
  IN  CASE prev \notin {2, 4} \/ want >= prev -> want
        [] prev \in {2, 4} /\ want < prev
             -> IF VideoScaleForTarget((target * 80) \div 100, screen) >= prev
                THEN prev ELSE Max({prev \div 2, want})
=============================================================================
