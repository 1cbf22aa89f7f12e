-------------------------- MODULE MCLoopbackSignals --------------------------
(***************************************************************************)
(* One writer over an interface of two channels and one of a single        *)
(* channel.  The first channel takes every change, good values and bad,    *)
(* and checks that come late; the others are what a commit, a generation   *)
(* and a scan see beside it.  A buffer may be too short for the first      *)
(* interface and not for the second.                                       *)
(***************************************************************************)
EXTENDS LoopbackSignals

CONSTANTS pair, single, good, bad

MCKeys == {<<pair, 1>>, <<pair, 2>>, <<single, 1>>}

MCStaged == (<<pair, 1>>   :> {good, bad, "Invalidate", "Touch"}) @@
            (<<pair, 2>>   :> {good, "Touch"}) @@
            (<<single, 1>> :> {good})

MCChecks == (<<pair, 1>>   :> {{good}, {good, bad}}) @@
            (<<pair, 2>>   :> {}) @@
            (<<single, 1>> :> {})
==============================================================================
