---------------------------- MODULE MCDownloadMgr ----------------------------
(***************************************************************************)
(* Values of DownloadMgr's constants for TLC.                              *)
(***************************************************************************)
EXTENDS DownloadMgr

OneWorker == [c \in Channels |-> 1]
TwoRandom == [OneWorker EXCEPT !["random"] = 2]

\* The retryTimesLimit of channel.go, and a smaller random channel.
CodeRetries ==
  [c \in Channels |-> IF c \in {"random", "unpauseSlow"} THEN 3 ELSE 1]
SmallRetries == [c \in Channels |-> 1]
DownloadRetries ==
  [c \in Channels |-> IF c = "random" THEN 1 ELSE 0]

Quick(e) ==
  [type |-> "quick", expire |-> e, sizeLimit |-> 0, url |-> "good",
   remote |-> 1, lengthKnown |-> TRUE, honest |-> TRUE]
Normal == [Quick(0) EXCEPT !.type = "normal"]

\* A quick and a normal task, in any combination.
MixedParams == {Quick(1), Normal}

\* Quick tasks only: all compete for one idle list.
QuickParams == {Quick(1)}

\* A normal task.
NormalParams == {Normal}

\* One request in all its variants.  A body whose length is known is framed, and
\* no ranges are asked for a quick task.
AllParams ==
  {p \in [type : {"quick", "normal"}, expire : {0, 1}, sizeLimit : {0, 1},
          url : {"good", "malformed"}, remote : 0..2, lengthKnown : BOOLEAN,
          honest : BOOLEAN] :
     /\ p.type = "normal" => p.expire = 0
     /\ p.type = "quick" /\ p.lengthKnown => p.honest}
=============================================================================
