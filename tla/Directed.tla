------------------------------ MODULE Directed ------------------------------
(***************************************************************************)
(* Directed mode: one fault, submitted by an operator from the web UI      *)
(* (POST /api/faults and /api/translate) or with "simian chaos" over MCP   *)
(* (submit_fault, submit_manifest).  An intent is translated by the LLM;   *)
(* the web page may show the translation and have it confirmed first.  The *)
(* web UI applies on a context of its own and answers after a while either *)
(* way, leaving the outcome to the event stream; MCP answers when Apply    *)
(* returns, and its client may have hung up by then.                       *)
(***************************************************************************)
EXTENDS Feed

CONSTANTS
    Pages,        \* clients in a browser, each following the stream as the connection of its name
    Tools,        \* clients over MCP
    TranslateRetries,
    Replies,      \* what the LLM may answer
    DefaultNS,    \* the namespace the client names
    Noise,        \* an event of something else
    MaxNoise      \* bound: such events

ASSUME DirectedAssumption ==
    /\ Pages \subseteq Conns /\ Tools \cap Conns = {}
    /\ TranslateRetries \in Nat /\ MaxNoise \in Nat

\* The client names a namespace other than the one an LLM falls back on, and the
\* targets of a manifest are a list (FaultManifest.Targets), of any length.
ASSUME NamesAssumption ==
    /\ DefaultNS \notin {"blank", "default"}
    /\ \A r \in Replies : r.targets \in Seq(Range(r.targets))

VARIABLES
    ask,      \* the request of each client
    noise

divars == <<feedVars, ask, noise>>

Clients == Pages \cup Tools
Via(c) == IF c \in Pages THEN "page" ELSE "tool"

\* What a client wants: nothing, to apply an intent, to see its translation first (the
\* page only), or to apply a manifest of its own.
Wishes(c) == {"nothing", "intent", "manifest"} \cup (IF c \in Pages THEN {"propose"} ELSE {})
NewAsk(wish) == [at |-> "new", wish |-> wish, tries |-> 0, draft |-> <<>>, sent |-> <<>>,
                 outcome |-> "none", answer |-> "none"]

DirInit ==
    /\ FeedInit
    /\ ask \in [Clients -> UNION {{NewAsk(w) : w \in Wishes(c)} : c \in Clients}]
    /\ \A c \in Clients : ask[c].wish \in Wishes(c)
    /\ noise = 0

Becomes(c, r) == ask' = [ask EXCEPT ![c] = r] /\ UNCHANGED noise
Refuse(c, why) == Becomes(c, [ask[c] EXCEPT !.at = "over", !.answer = why])

(***************************************************************************)
(* The manifest.  A target is the namespace the LLM gave it, "blank" or    *)
(* "default" among them.                                                   *)
(***************************************************************************)
\* mayWrite, and a manifest with a namespace and a kind of the catalog.
Submit(c) ==
    /\ ask[c].at = "new" /\ ask[c].wish # "nothing"
    /\ \/ Via(c) = "page" /\ Refuse(c, "forbidden")
       \/ ask[c].wish = "manifest" /\ Becomes(c, [ask[c] EXCEPT !.at = "ready", !.sent = <<DefaultNS>>])
       \/ ask[c].wish # "manifest" /\ Becomes(c, [ask[c] EXCEPT !.at = "translating"])
       \/ Refuse(c, "bad request")
    /\ UNCHANGED feedVars

BackFill(targets) == [i \in DOMAIN targets |-> IF targets[i] \in {"blank", "default"} THEN DefaultNS ELSE targets[i]]

parseManifest(reply) == reply.whole /\ reply.targets # <<>>

\* Translate: an answer that does not parse is sent back to the LLM.
Translated(c, reply) ==
    /\ ask[c].at = "translating" /\ parseManifest(reply)
    /\ LET m == BackFill(reply.targets)
       IN  Becomes(c, IF ask[c].wish = "propose"
                      THEN [ask[c] EXCEPT !.at = "proposed", !.draft = m, !.tries = 0]
                      ELSE [ask[c] EXCEPT !.at = "ready", !.draft = m, !.sent = m, !.tries = 0])
    /\ UNCHANGED feedVars

Retry(c, reply) ==
    /\ ask[c].at = "translating" /\ ~ parseManifest(reply)
    /\ IF ask[c].tries < TranslateRetries
       THEN Becomes(c, [ask[c] EXCEPT !.tries = @ + 1])
       ELSE Refuse(c, "bad request")
    /\ UNCHANGED feedVars

TranslateFails(c) == ask[c].at = "translating" /\ Refuse(c, "bad request") /\ UNCHANGED feedVars

\* proposalOf: the form has room for one target.
proposalOf(m) == <<Head(m)>>

Confirm(c) ==
    /\ ask[c].at = "proposed"
    /\ \/ Becomes(c, [ask[c] EXCEPT !.at = "ready", !.sent = proposalOf(ask[c].draft)])
       \/ Refuse(c, "discarded")
    /\ UNCHANGED feedVars

(***************************************************************************)
(* Apply, and the answer.                                                  *)
(***************************************************************************)
Dispatch(c) == ask[c].at = "ready" /\ Becomes(c, [ask[c] EXCEPT !.at = "applying"]) /\ UNCHANGED feedVars

\* Only an Apply on the request's own context notices that the client is gone.
Interruptible(c) == Via(c) = "tool" /\ ask[c].answer = "hung up"

\* Apply returns; its last event goes out under the fault's UID.
Finish(c) ==
    /\ ask[c].at = "applying"
    /\ \E o \in {"applied", "refused"} \cup (IF Interruptible(c) THEN {"interrupted"} ELSE {}) :
          /\ Becomes(c, [ask[c] EXCEPT !.at = "over", !.outcome = o])
          /\ Emit(c)
    /\ Quiet

Reply(c) ==
    /\ ask[c].answer = "none" /\ ask[c].at \in {"applying", "over"}
    /\ \/ ask[c].outcome # "none" /\ Becomes(c, [ask[c] EXCEPT !.answer = ask[c].outcome])
       \/ Via(c) = "page" /\ Becomes(c, [ask[c] EXCEPT !.answer = "accepted"])
    /\ UNCHANGED feedVars

\* The browser is closed, or submitBudget is spent.
HangUp(c) ==
    /\ ask[c].answer = "none" /\ ask[c].at = "applying"
    /\ Becomes(c, [ask[c] EXCEPT !.answer = "hung up"])
    /\ UNCHANGED feedVars

OtherEvent == noise < MaxNoise /\ noise' = noise + 1 /\ Emit(Noise) /\ Quiet /\ UNCHANGED ask

\* A step of the stream alone.
Stream(A) == A /\ UNCHANGED <<ask, noise>>

\* Once the process is on its way out nothing need happen any more.
Stopped == ~ running /\ UNCHANGED divars

DirNext ==
    \/ Stream(FeedStep) \/ Stopped
    \/ \E c \in Clients :
        \/ Submit(c) \/ TranslateFails(c) \/ Confirm(c) \/ Dispatch(c) \/ Finish(c) \/ Reply(c) \/ HangUp(c)
        \/ \E r \in Replies : Translated(c, r) \/ Retry(c, r)
    \/ OtherEvent

DirSpec == DirInit /\ [][DirNext]_divars

(***************************************************************************)
(* Properties                                                              *)
(***************************************************************************)
\* Type invariant; in particular a connection's channel always has room for a replay.
DirTypeOK ==
    /\ Len(inbox) <= QueueCap /\ Len(recent) <= Replayed
    /\ subs \subseteq Conns /\ behind \subseteq Conns
    /\ \A c \in Conns : Len(channel[c]) <= Replayed + Slack
    /\ conn \in [Conns -> {"new", "joining", "reading", "leaving", "gone"}]
    /\ \A c \in Clients :
        /\ ask[c].at \in {"new", "translating", "proposed", "ready", "applying", "over"}
        /\ ask[c].tries \in 0 .. TranslateRetries
        /\ ask[c].outcome \in {"none", "applied", "refused", "interrupted"}
    /\ noise \in 0 .. MaxNoise

\* A client that names a namespace never has a fault submitted into the namespace
\* called "default", or into none, whatever the LLM put there and in whichever target.
MeantPlace ==
    \A c \in Clients : \A i \in DOMAIN ask[c].sent : ask[c].sent[i] \notin {"blank", "default"}

\* What a client was told is what became of its fault, and a page that goes away
\* does not interrupt the Apply it started.
AnswerTrue ==
    \A c \in Clients :
        /\ ask[c].answer \in {"applied", "refused"} => ask[c].outcome = ask[c].answer
        /\ c \in Pages => ask[c].outcome # "interrupted"

\* Confirming a proposal is an exact submit.  Refuted: the form has one target, and
\* a translation may have several.
ExactConfirm ==
    \A c \in Pages : ask[c].at \in {"applying", "over"} /\ ask[c].sent # <<>> => 
        ask[c].wish = "manifest" \/ ask[c].sent = ask[c].draft

\* A page that was told to wait is sent the outcome on the stream it follows, unless
\* the queue was full when it was emitted, the page fell behind, it went away, or the
\* process stops.
OutcomeFollows ==
    \A c \in Pages :
        (ask[c].at = "over" /\ ask[c].outcome # "none" /\ (\E i \in DOMAIN inbox : inbox[i] = c) /\ conn[c] = "reading")
            ~> ((\E i \in DOMAIN got[c] : got[c][i] = c) \/ c \in behind \/ conn[c] # "reading" \/ ~ running)

\* A submission never lands in the namespace "default" or in none, is answered truly, and
\* is seen by the pages that keep up with the stream, which nobody can bring down.
SubmittedTrue == DirTypeOK /\ MeantPlace /\ AnswerTrue /\ FeedWhole /\ NeverPanics
=============================================================================
