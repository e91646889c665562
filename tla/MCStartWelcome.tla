---------------------------- MODULE MCStartWelcome ----------------------------
(* Small instances of StartWelcome for TLC.                                  *)
EXTENDS StartWelcome, TLC

\* Every call but the removal of the commands.
FollowedCalls == StartCalls \ {Command(u) : u \in Updates}

StartWelcomes == {Welcome(u) : u \in Updates}

WorkerSymmetry == Permutations(Workers)
===============================================================================
