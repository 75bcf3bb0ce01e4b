------------------------- MODULE MCHttpServerClient -------------------------
(* Plans of the peer for model checking HttpServerClient, and, as a second   *)
(* part that runs on its own, the text conversions of HttpContent.           *)
EXTENDS HttpServerClient

Rq(kind, hdr, body, size) ==
  [kind |-> kind, hdr |-> hdr, body |-> body, length |-> body, size |-> size,
   path |-> "file", fail |-> -1]
File(path, size, fail) ==
  [Rq("file", 2, 0, size) EXCEPT !.path = path, !.fail = fail]
Frame(op, masked, form, len) ==
  [kind |-> "frame", op |-> op, masked |-> masked, form |-> form, len |-> len]

MCPlans == {
  <<Rq("app", 2, 0, 5), Rq("app", 1, 1, 0), File("index", 3, -1)>>,
  <<Rq("app", 3, 7, 1), Rq("app", 2, 4, 0)>>,
  <<[Rq("file", 2, 5, 1) EXCEPT !.path = "missing"], Rq("method", 1, 0, 0)>>,
  <<Rq("upgrade", 2, 0, 0), Frame("text", TRUE, "7", 5), Frame("ping", TRUE, "7", 0),
    Frame("close", TRUE, "7", 0)>>,
  <<Rq("upgrade", 2, 0, 0), Frame("text", TRUE, "16", 3), Frame("text", FALSE, "7", 2),
    Frame("text", TRUE, "64", 2)>>,
  <<Rq("app", 2, 0, 3), Rq("app", 6, 0, 1), Rq("badurl", 2, 0, 0)>>,
  <<File("file", 4, 2), File("template", 2, -1)>>,
  <<File("notmodified", 1, -1), File("outside", 1, -1), [Rq("app", 2, 0, 1) EXCEPT !.length = -1]>>,
  <<Rq("app", 1, 0, 5), Rq("upgrade", 1, 0, 0), Frame("text", TRUE, "7", 1)>>,
  <<Rq("badupgrade", 1, 0, 0), Rq("badupgrade", 1, 0, 0), Rq("app", 1, 0, 6), Rq("app", 1, 0, 1)>>
  }

-----------------------------------------------------------------------------
VARIABLES part, job, fed, mime, pc, files, text

Part(h, d) == <<45, 45, 98, 13, 10>> \o h \o <<13, 10, 13, 10>> \o d \o <<13, 10>>
Body(a, b) == Part(<<104>>, a) \o Part(<<104, 105>>, b) \o <<45, 45, 98, 45, 45, 13, 10>>
Form(a, b) == [what |-> "form", parts |-> <<a, b>>, body |-> Body(a, b)]
Texts == UNION {[1..n -> {37, 38, 43, 61, 97, 200}] : n \in 1..2}
MCJobs ==
  {Form(<<201, 202, 203, 204, 205, 206, 207, 208, 209, 210, 211>>, <<45, 45, 301>>), Form(<<>>, <<13, 10, 45, 45, 302>>)}
  \cup {[what |-> "pair", key |-> k, value |-> v] : k, v \in Texts}
  \cup {[what |-> "template", text |-> <<100, 1, 2, 1>>, cyclic |-> FALSE,
          dict |-> 1 :> <<2, 101>> @@ 2 :> <<>>],
         [what |-> "template", text |-> <<1>>, cyclic |-> TRUE,
          dict |-> 1 :> <<2>> @@ 2 :> <<1>>]}
  \cup {[what |-> "time", time |-> [day |-> 5, month |-> k, year |-> 2020]] : k \in 0..11}
MCNoJob == [what |-> "none"]
C == INSTANCE HttpContent WITH Jobs <- MCJobs, FormChunk <- 4

contentVars == <<job, fed, mime, pc, files, text>>
MCInit ==
  \/ part = "client" /\ Init /\ job = MCNoJob /\ fed = 0 /\ pc = "feed" /\ files = <<>>
     /\ mime = <<>> /\ text = <<>>
  \/ /\ part = "content" /\ C!Init
     /\ plan = <<>> /\ at = 0 /\ left = 0 /\ dropped = 0
     /\ upgraded = FALSE /\ reg = RegNew /\ ws = WsNew
     /\ data = <<>> /\ rx = <<>> /\ inbox = <<>> /\ switching = FALSE
     /\ cl = ResetClient /\ wire = <<>> /\ calls = <<>> /\ seen = {}
MCNext == /\ UNCHANGED part
          /\ \/ part = "client" /\ Next /\ UNCHANGED contentVars
             \/ part = "content" /\ C!Next /\ UNCHANGED vars
MCvars == <<part, vars, contentVars>>
MCSpec == /\ MCInit /\ [][MCNext]_MCvars
          /\ (part = "client" => Fairness)
          /\ (part = "content" => WF_MCvars(MCNext))
\* Of HttpContent, see there.
ContentReadBack == C!ContentReadBack

\* Every request is answered, and the templates in an answer come to an end.
EveryRequestEnds == Answered /\ C!TemplatesEnd
=============================================================================
