----------------------------- MODULE Supervise -----------------------------
(***************************************************************************)
(* The supervisor of the MT5 container: a loop that checks the API server, *)
(* repairs it (reconnect; or reap terminals, start one, restart the server *)
(* and reconnect), backs off after a failed repair and gives up for good.  *)
(* Around it, terminals and the server die or hang while `broken' holds,   *)
(* and the trading processes ask for a connection whenever they like.      *)
(* A connect that is not answered in time is posted again, and what was    *)
(* posted before may still be executed.  Every helper the script calls is *)
(* one step, each try of a connect another; sleeping is between steps.     *)
(***************************************************************************)
EXTENDS Naturals

CONSTANTS MaxFailures,              \* MAX_CONSECUTIVE_FAILURES
          BackoffStart, BackoffMax, \* in units of half a minute, say
          Tries,                    \* wget's tries: 20, since the script names none
          MaxBreaks,                \* bound: how often something breaks
          MaxStrays,                \* bound: strays, see below
          MaxPending,               \* bound: posts of which none has been executed
          MaxHung                   \* bound: a terminal hangs only when fewer do

ASSUME SuperviseAssumption ==
  /\ {MaxFailures, Tries} \subseteq Nat \ {0}
  /\ {MaxBreaks, MaxStrays, MaxPending, MaxHung} \subseteq Nat
  /\ {BackoffStart, BackoffMax} \subseteq Nat \ {0} /\ BackoffStart <= BackoffMax

VARIABLES
  pc,        \* where the script is
  failures,  \* consecutive_failures
  backoff,
  tries,     \* posts of this api_connect that were not answered in time
  server,    \* the process on main.py: none, starting, up or stuck (does not answer)
  link,      \* does the server hold a link to a terminal?
  live,      \* terminals that answer: none or one
  hung,      \* terminals that do not
  pending,   \* such posts that the server has not executed yet
  broken,    \* do things fail at the moment?
  breaks,    \* how often they began to
  strays,    \* observer: terminals launched since the last reap for clients, or
             \* for posts of an api_connect before this repair's last one
  failed,    \* observer: repairs that failed since the last good check or repair
  clean      \* observer: has nothing been broken since this repair began?

script == <<pc, failures, backoff, tries>>
processes == <<server, link, live, hung, pending>>
world == <<broken, breaks>>
observers == <<strays, failed, clean>>
vars == <<script, processes, world, observers>>

Terminals == live + hung

Responding == server = "up"

RespondingIsEnough == Responding

\* Answering is not enough: the server has to report a link.
Healthy == Responding /\ link

----------------------------------------------------------------------------
\* mt5.initialize() attaches to a terminal that answers, or launches one.
Launch == \/ live' = 1 /\ UNCHANGED hung
          \/ broken /\ hung < MaxHung /\ hung' = hung + 1 /\ UNCHANGED live
          \/ broken /\ UNCHANGED <<live, hung>>

Initialize == /\ IF live = 1 THEN UNCHANGED <<live, hung>> ELSE Launch
              /\ link' = (live' = 1)
              /\ UNCHANGED server

\* What 01-start.sh leaves behind when it hands over.
Init == /\ pc = "sleep" /\ failures = 0 /\ backoff = BackoffStart /\ tries = 0
        /\ server \in {"none", "starting", "up", "stuck"}
        /\ live \in {0, 1} /\ hung \in {0, 1} /\ (live = 1 => hung = 0)
        /\ link \in BOOLEAN /\ (link => server = "up" /\ live = 1)
        /\ pending = 0 /\ broken = TRUE /\ breaks = 0
        /\ strays = 0 /\ failed = 0 /\ clean = FALSE

----------------------------------------------------------------------------
\* The loop.
GoodKeepsCount == /\ UNCHANGED failures /\ backoff' = BackoffStart
                  /\ pc' = "sleep" /\ failed' = 0

Good == /\ failures' = 0 /\ backoff' = BackoffStart
        /\ pc' = "sleep" /\ failed' = 0

CheckOk == /\ pc = "sleep" /\ Healthy
           /\ Good
           /\ UNCHANGED <<tries, processes, world, strays, clean>>

CheckFails == /\ pc = "sleep" /\ ~Healthy
              /\ failures' = failures + 1
              /\ pc' = IF failures + 1 >= MaxFailures THEN "gaveUp" ELSE "probe"
              /\ clean' = ~broken
              /\ UNCHANGED <<backoff, tries, processes, world, strays, failed>>

\* recover(): the cheap repair when the server answers.
Probe == /\ pc = "probe"
         /\ pc' = IF Responding THEN "connect" ELSE "reap"
         /\ UNCHANGED <<failures, backoff, tries, processes, world, observers>>

\* api_connect is one wget.  An answer ends it, a link or an error, and so does
\* a connection that is refused.
Connect(from, then, otherwise) ==
  /\ pc = from
  /\ IF Responding THEN Initialize /\ UNCHANGED pending ELSE UNCHANGED processes
  /\ pc' = IF Responding /\ link' THEN then ELSE otherwise
  /\ tries' = 0
  /\ failed' = IF pc' = "backoff" THEN failed + 1 ELSE failed
  /\ UNCHANGED <<failures, backoff, world, strays, clean>>

\* No answer within a minute, though the post is executed or waits for one of the
\* server's threads: wget posts it again, and fails after as many tries as it has.
Repeat(from, otherwise) ==
  /\ pc = from /\ broken /\ Responding
  /\ \/ Initialize /\ UNCHANGED pending
     \/ pending < MaxPending /\ pending' = pending + 1 /\ UNCHANGED <<server, link, live, hung>>
  /\ IF tries + 1 < Tries THEN tries' = tries + 1 /\ UNCHANGED pc
                          ELSE tries' = 0 /\ pc' = otherwise
  /\ failed' = IF pc' = "backoff" THEN failed + 1 ELSE failed
  /\ UNCHANGED <<failures, backoff, world, strays, clean>>

Confirm(from, otherwise) ==
  /\ pc = from
  /\ IF Healthy THEN Good
     ELSE /\ pc' = otherwise /\ UNCHANGED <<failures, backoff>>
          /\ failed' = IF otherwise = "backoff" THEN failed + 1 ELSE failed
  /\ UNCHANGED <<tries, processes, world, strays, clean>>

ReapStuckOnly == Terminals > 2

ReapNeeded == Terminals > 1

Reap == /\ pc = "reap" /\ pc' = "ensure"
        /\ IF ReapNeeded THEN live' = 0 /\ hung' = 0 /\ link' = FALSE
           ELSE UNCHANGED <<live, hung, link>>
        /\ strays' = 0
        /\ UNCHANGED <<failures, backoff, tries, server, pending, world, failed, clean>>

\* ensure_terminal; that it failed is only logged.
Ensure == /\ pc = "ensure" /\ pc' = "stop"
          /\ IF Terminals > 0 THEN UNCHANGED <<live, hung>> ELSE Launch
          /\ UNCHANGED <<failures, backoff, tries, server, link, pending, world, observers>>

StopServerIfAnswering ==
  /\ pc = "stop" /\ pc' = "start"
  /\ IF Responding THEN server' = "none" /\ link' = FALSE /\ pending' = 0
     ELSE UNCHANGED <<server, link, pending>>
  /\ UNCHANGED <<failures, backoff, tries, live, hung, world, observers>>

\* pkill of a server process; one that is stuck may stay.
StopServer == /\ pc = "stop" /\ pc' = "start"
              /\ \/ server' = "none" /\ link' = FALSE /\ pending' = 0
                 \/ broken /\ server = "stuck" /\ UNCHANGED <<server, link, pending>>
              /\ UNCHANGED <<failures, backoff, tries, live, hung, world, observers>>

\* A second server cannot have the port of a first one, and ends.
StartServer == /\ pc = "start" /\ pc' = "await"
               /\ server' = IF server = "none" THEN "starting" ELSE server
               /\ UNCHANGED <<failures, backoff, tries, link, live, hung, pending, world, observers>>

\* wait_for_responding: three minutes are enough for a server that starts.
AwaitOk == /\ pc = "await" /\ Responding
           /\ pc' = "relink"
           /\ UNCHANGED <<failures, backoff, tries, processes, world, observers>>

AwaitTimesOut == /\ pc = "await" /\ ~Responding
                 /\ broken \/ server # "starting"
                 /\ pc' = "backoff" /\ failed' = failed + 1
                 /\ UNCHANGED <<failures, backoff, tries, processes, world, strays, clean>>

\* The sleep is as long as `backoff' was.
BackOff == /\ pc = "backoff" /\ pc' = "sleep"
           /\ backoff' = IF 2 * backoff > BackoffMax THEN BackoffMax ELSE 2 * backoff
           /\ UNCHANGED <<failures, tries, processes, world, observers>>

SuperviseStep ==
  \/ CheckOk \/ CheckFails \/ Probe
  \/ Connect("connect", "confirm", "reap") \/ Repeat("connect", "reap")
  \/ Confirm("confirm", "reap")
  \/ Reap \/ Ensure \/ StopServer \/ StartServer \/ AwaitOk \/ AwaitTimesOut
  \/ Connect("relink", "reconfirm", "backoff") \/ Repeat("relink", "backoff")
  \/ Confirm("reconfirm", "backoff")
  \/ BackOff

----------------------------------------------------------------------------
\* Everybody else.
ClientConnects == /\ Responding /\ ~link /\ strays < MaxStrays
                  /\ Initialize
                  /\ strays' = strays + (live' + hung') - Terminals
                  /\ UNCHANGED <<script, pending, world, failed, clean>>

\* The server gets to a post that wget has given up.
LateInitialize ==
  /\ pending > 0 /\ Responding
  /\ pending' = pending - 1 /\ Initialize
  /\ IF pc \in {"relink", "reconfirm", "backoff"} THEN UNCHANGED strays
     ELSE strays < MaxStrays /\ strays' = strays + (live' + hung') - Terminals
  /\ UNCHANGED <<script, world, failed, clean>>

ServerReady == /\ server = "starting" /\ server' = "up"
               /\ UNCHANGED <<script, link, live, hung, pending, world, observers>>

ServerFails == /\ broken /\ server # "none"
               /\ server' \in {"none", "stuck"} /\ link' = FALSE /\ pending' = 0
               /\ UNCHANGED <<script, live, hung, world, observers>>

TerminalFails == /\ broken
                 /\ \/ live = 1 /\ live' = 0 /\ link' = FALSE /\ UNCHANGED hung
                    \/ live = 1 /\ live' = 0 /\ link' = FALSE /\ hung < MaxHung /\ hung' = hung + 1
                    \/ hung > 0 /\ hung' = hung - 1 /\ UNCHANGED <<live, link>>
                 /\ UNCHANGED <<script, server, pending, world, observers>>

Break == /\ ~broken /\ breaks < MaxBreaks
         /\ broken' = TRUE /\ breaks' = breaks + 1 /\ clean' = FALSE
         /\ UNCHANGED <<script, processes, strays, failed>>

Mend == /\ broken /\ broken' = FALSE
        /\ UNCHANGED <<script, processes, breaks, observers>>

Next == \/ SuperviseStep \/ ClientConnects \/ LateInitialize \/ ServerReady
        \/ ServerFails \/ TerminalFails \/ Break \/ Mend

\* The loop runs, and a server that starts gets there.
Spec == Init /\ [][Next]_vars /\ WF_vars(SuperviseStep) /\ WF_vars(ServerReady)

----------------------------------------------------------------------------
TypeOK ==
  /\ pc \in {"sleep", "probe", "connect", "confirm", "reap", "ensure", "stop", "start",
             "await", "relink", "reconfirm", "backoff", "gaveUp"}
  /\ failures \in 0..MaxFailures /\ backoff \in BackoffStart..BackoffMax
  /\ server \in {"none", "starting", "up", "stuck"}
  /\ live \in {0, 1} /\ hung \in Nat
  /\ link => Healthy /\ live = 1
  /\ tries \in 0..Tries - 1 /\ (tries > 0 => pc \in {"connect", "relink"})
  /\ pending \in 0..MaxPending /\ (pending > 0 => Responding)
  /\ broken \in BOOLEAN /\ clean \in BOOLEAN
  /\ breaks \in 0..MaxBreaks /\ strays \in 0..MaxStrays /\ failed \in 0..MaxFailures

(***************************************************************************)
(* "Each failed connect left one more hung terminal behind until 17 of     *)
(* them exhausted the 2 GB limit" (02-common.sh:92-93): repairs that fail  *)
(* do not add up.  After each of them there are the terminal it started    *)
(* and at most one for every try of its last connect, which may be         *)
(* executed late, next to the strays.                                      *)
(***************************************************************************)
FailedRepairsDoNotAddUp == pc = "backoff" => Terminals <= 1 + Tries + strays

(***************************************************************************)
(* "A cap on consecutive failed recoveries" (10-supervise.sh:15): the      *)
(* supervisor gives up only when every repair since the last good check or *)
(* repair has failed and there were as many as it allows, the last check   *)
(* being the one that it does not answer with a repair.                    *)
(***************************************************************************)
GiveUpIsEarned == pc = "gaveUp" => failed = MaxFailures - 1

(***************************************************************************)
(* "This loop is what acts on it" (10-supervise.sh:13): a repair begun     *)
(* when nothing is broken any more succeeds, whatever it found: a hung     *)
(* terminal or several, none, a server that is gone, stuck or not linked.  *)
(***************************************************************************)
CleanRepairSucceeds == pc = "backoff" => ~clean

(***************************************************************************)
(* Once nothing breaks any more, the API is linked for good, or the        *)
(* supervisor has given up.                                                *)
(***************************************************************************)
MendedGetsLinked == <>[]~broken => <>[](server = "up" /\ link) \/ <>(pc = "gaveUp")
============================================================================
