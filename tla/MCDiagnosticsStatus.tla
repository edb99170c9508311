------------------------- MODULE MCDiagnosticsStatus -------------------------
(* One driver on one service, one on files, a watcher and one other collector. *)
EXTENDS DiagnosticsStatus

CONSTANTS s1, d1, d2, watch, pack

MCTargetServices == [d \in Drivers |-> IF d = d1 THEN {s1} ELSE {}]
MCWatch == {[ManifestOnly |-> FALSE, NoJournal |-> FALSE]}

(* The other collector is run by hand, or by run-organ-test-packs.ps1, which
   does not journal and in live mode probes as the watcher does. *)
MCModes == [c \in {watch, pack} |->
              IF c = watch THEN MCWatch ELSE [ManifestOnly: {FALSE}, NoJournal: BOOLEAN]]
=============================================================================
