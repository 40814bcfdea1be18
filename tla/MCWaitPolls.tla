---------------------------- MODULE MCWaitPolls ----------------------------
(* Instances of WaitPolls for TLC. *)
EXTENDS WaitPolls

SingleKeys == {{k} : k \in Key}

\* Each handle follows a job of its own.
OwnJob == CHOOSE f \in [Caller -> SingleKeys] : \A c, d \in Caller : f[c] = f[d] => c = d
=============================================================================
