----------------------------- MODULE MCSignals -----------------------------
(* Instances of Signals for TLC: three signals a program catches, and SIGKILL. *)
EXTENDS Signals

Plain == [handler |-> "fn", mask |-> {}, nodefer |-> FALSE, resethand |-> FALSE]
Ignore == [DflAction EXCEPT !.handler = "IGN"]

\* One handler resets itself, one asks for everything to be blocked while it
\* runs, one can interrupt itself.
MCOffered ==
  [s \in Sigs |-> CASE s = SIGINT   -> {Plain, Ignore, [Plain EXCEPT !.resethand = TRUE]}
                    [] s = SIGALRM  -> {[Plain EXCEPT !.mask = Sigs]}
                    [] s = SIGWINCH -> {[Plain EXCEPT !.nodefer = TRUE]}
                    [] s = SIGKILL  -> {Plain}]

MCMasks == {{SIGINT}, Sigs}

=============================================================================
