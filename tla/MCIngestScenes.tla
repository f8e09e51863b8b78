---------------------------- MODULE MCIngestScenes ----------------------------
(***************************************************************************)
(* An instance of Ingest for TLC.  A behaviour looks at one of             *)
(*   "stars"       a user stars three times, the first is sent again      *)
(*   "redelivery"  a star that two integrations of an installation want,   *)
(*                 and the app being uninstalled                           *)
(*   "shared"      an event of a GitLab group, sent under one id by a      *)
(*                 project's webhook and by the group's, and a commit      *)
(*                 status nobody is told of.                               *)
(* In the first two everything may fail, and the third has the settings    *)
(* that make an integration want a delivery or not.                        *)
(*                                                                         *)
(* Requests are alike until they are sent, and so are idle handlers: the   *)
(* stars are sent in order, the first idle handler takes a request.        *)
(***************************************************************************)
EXTENDS MCIngest

CONSTANTS i3, i4, gl1, gl2

VARIABLE scene

Forges == (gh :> "github") @@ (gl1 :> "other") @@ (gl2 :> "other")
Owners == (i1 :> gl1) @@ (i2 :> gl2) @@ (i3 :> gh) @@ (i4 :> gh)

SharedId    == {Post(1, gl1, "event"), Post(1, gl2, "event"), Post(2, gl1, "unwanted")}
Stars       == {Post(n, gh, "star") : n \in 3..5}
FirstStar   == Post(3, gh, "star")
Uninstalled == Post(6, gh, "uninstalled")
AllPosts    == SharedId \cup Stars \cup {Uninstalled}

\* The stars that may be sent.
NextStars ==
  {p \in Stars : /\ p = FirstStar \/ sent[p] = 0
                 /\ \A q \in Stars : q.id < p.id => sent[q] > 0}

Serve(h, S) == (\E p \in S : Send(h, p)) \/ Handle(h)

OfGitHub == {i1, i2} \subseteq live' /\ {gl1, gl2} \subseteq connections'

StarScene ==
  /\ \/ \E h \in Handlers : Serve(h, NextStars) \/ DbError(h)
     \/ Delete \/ Crash
  /\ OfGitHub /\ i4 \in live'

RedeliveryScene ==
  /\ \/ \E h \in Handlers : Serve(h, {FirstStar, Uninstalled}) \/ DbError(h)
     \/ Change \/ Delete \/ Crash
  /\ OfGitHub
  /\ sent'[Uninstalled] <= 1
  /\ UNCHANGED <<muted, ignored>>
  /\ disabled' \subseteq {i3, i4} \X {"star"} /\ broken' \subseteq {i3, i4}

SharedScene ==
  /\ (\E h \in Handlers : Serve(h, SharedId)) \/ Change
  /\ UNCHANGED <<disabled, broken>>
  /\ \A s \in ignored' : s[1] \in {i1, i2}

FirstIdle == \A g, h \in Handlers : g < h /\ pc[g] = "idle" /\ pc[h] = "idle" => pc'[h] = "idle"

MCInit == Init /\ scene \in {"stars", "redelivery", "shared"}
MCNext ==
  /\ UNCHANGED scene
  /\ \/ scene = "stars" /\ StarScene
     \/ scene = "redelivery" /\ RedeliveryScene
     \/ scene = "shared" /\ SharedScene
  /\ FirstIdle

\* Less than Fairness: only the events of the third scene have to be resent.
MCFairness ==
  /\ \A h \in Handlers : WF_vars(Handle(h))
  /\ \A p \in SharedId : SF_vars(Resend(p))

MCSpec == MCInit /\ [][MCNext]_<<vars, scene>> /\ MCFairness
===============================================================================
