--------------------------- MODULE AgentSessions ----------------------------
(***************************************************************************)
(* `fy agent': agents in tmux sessions of one box, which several terminals *)
(* start, list, resume, stop and clean.  A command reads the list and acts *)
(* on the names in it; a conversation is known by the tag of its session,  *)
(* which for Codex a watcher in the pane keeps.                            *)
(***************************************************************************)
EXTENDS Integers, FiniteSets

CONSTANTS
  Names,        \* the names operators give
  Operators,    \* terminals
  MaxIds, MaxCommands, MaxEvents   \* bounds

VARIABLES
  sessions,     \* what the box's tmux holds
  convs,        \* agent -> the conversations it has saved
  ids,          \* the uuids made
  cmd,          \* terminal -> its command
  slain,        \* a running agent was removed by a command that meant another's end
  commands, events

vars == <<sessions, convs, ids, cmd, slain, commands, events>>

Agents == {"claude", "codex"}
Untagged == 0
NO_CONVERSATION == -1
Given(n) == <<n>>
Default(agent, id) == <<agent, id>>
Unnamed == <<>>

(* A session, and what its agent is in the middle of.                      *)
Session(born, name, id, agent, tag, thread, asked, from) ==
  [born |-> born, name |-> name, id |-> id, agent |-> agent, tag |-> tag, thread |-> thread,
   alive |-> TRUE, stale |-> FALSE, asked |-> asked, from |-> from]
Idle == [pc |-> "idle", verb |-> "", born |-> 0, blind |-> FALSE, known |-> {}, old |-> {}, doomed |-> {},
         name |-> Unnamed, agent |-> "", conv |-> 0]

(* None, or one of a foldyard that did not tag Claude's sessions.          *)
Init ==
  /\ \/ sessions = {} /\ ids = 0
     \/ sessions = {Session(0, Default("claude", 1), 1, "claude", Untagged, 1, FALSE, {})} /\ ids = 1
  /\ convs = [a \in Agents |-> IF a = "claude" THEN 1..ids ELSE {}]
  /\ cmd = [p \in Operators |-> Idle]
  /\ slain = FALSE /\ commands = 0 /\ events = 0

Goes(p, c) == cmd' = [cmd EXCEPT ![p] = c]
Ends(p) == Goes(p, Idle)
Named(name) == {s \in sessions : s.name = name}
Running == {s \in sessions : s.alive}

-----------------------------------------------------------------------------
(* _conversation(): what the agent resumes this session by.                *)
Conversation(s) ==
  IF s.tag > 0 THEN s.tag
  ELSE IF s.agent = "claude" /\ s.tag = Untagged THEN s.id ELSE 0

(* Mutant: by name and foldyard's id only.                                 *)
Matches_NoThread(s, target) == s.name = target.name \/ (target.uuid # 0 /\ s.id = target.uuid)

(* _matches(), _one(): a name or an id before a thread; only one is one.   *)
Matches(s, target) ==
  \/ s.name = target.name
  \/ target.uuid \in {s.id, Conversation(s)} \ {0}
Exact(s, target) == s.name = target.name \/ (target.uuid # 0 /\ s.id = target.uuid)
Hits(seen, target) ==
  LET hits == {s \in seen : Matches(s, target)}
      exact == {s \in hits : Exact(s, target)}
  IN  IF exact # {} THEN exact ELSE hits

Targets ==
  {[name |-> n, uuid |-> 0] : n \in {Given(m) : m \in Names} \cup {s.name : s \in sessions}}
    \cup {[name |-> Unnamed, uuid |-> i] : i \in 1..ids}

(* session_args(): the id, the tag, and the conversation Claude then runs. *)
(* One it picks itself may be any, or a new one.                           *)
ClaudeArgs(own) ==
  {[id |-> own, tag |-> own, thread |-> own, asked |-> FALSE]}
    \cup {[id |-> c, tag |-> c, thread |-> c, asked |-> TRUE] : c \in convs["claude"]}
    \cup {[id |-> own, tag |-> NO_CONVERSATION, thread |-> c, asked |-> TRUE] :
            c \in convs["claude"] \cup {own}}
CodexArgs(own) ==
  {[id |-> own, tag |-> Untagged, thread |-> c, asked |-> c # 0] : c \in convs["codex"] \cup {0}}

(* start_argv(): one list of tmux commands; a name that is taken ends it.  *)
Makes(s) ==
  /\ Named(s.name) = {}
  /\ sessions' = sessions \cup {s}
  /\ convs' = IF s.thread = 0 THEN convs ELSE [convs EXCEPT ![s.agent] = @ \cup {s.thread}]

(* start().                                                                *)
Start(p) ==
  /\ cmd[p] = Idle /\ commands < MaxCommands /\ commands' = commands + 1
  /\ ids < MaxIds /\ ids' = ids + 1
  /\ \E agent \in Agents : \E a \in IF agent = "claude" THEN ClaudeArgs(ids') ELSE CodexArgs(ids') :
     \E name \in {Given(n) : n \in Names} \cup {Default(agent, a.id)} :
       Makes(Session(commands', name, a.id, agent, a.tag, a.thread, a.asked, {}))
  /\ UNCHANGED <<cmd, slain, events>>

-----------------------------------------------------------------------------
(* sessions_in(): everything the box reports, or nothing if it does not    *)
(* answer.                                                                 *)
Listed(seen) ==
  \/ seen = sessions /\ UNCHANGED events
  \/ seen = {} /\ sessions # {} /\ events < MaxEvents /\ events' = events + 1

Asks(p) == cmd[p] = Idle /\ commands < MaxCommands /\ commands' = commands + 1

(* What a resume knows of the sessions that have its conversation.         *)
Resuming(seen, agent, conv) ==
  [Idle EXCEPT !.pc = "launch", !.verb = "resume", !.born = commands', !.agent = agent,
     !.conv = conv, !.blind = seen # sessions, !.known = {s.born : s \in {t \in seen : Conversation(t) = conv}}]

(* resume(): one that runs, one of no conversation and an unclear target   *)
(* are refused before anything is removed.  With none in the box, a uuid   *)
(* is the agent's own.                                                     *)
Resume(p) ==
  /\ Asks(p)
  /\ \E seen \in {sessions, {}}, target \in Targets, name \in {Unnamed} \cup {Given(n) : n \in Names} :
       LET hits == Hits(seen, target)
       IN  /\ Listed(seen)
           /\ \/ \E old \in hits :
                   /\ hits = {old} /\ ~old.alive /\ Conversation(old) # 0
                   /\ Goes(p, [Resuming(seen, old.agent, Conversation(old)) EXCEPT
                                 !.pc = "remove", !.old = {old},
                                 !.name = IF name = Unnamed THEN old.name ELSE name])
              \/ /\ hits = {}
                 /\ \E agent \in Agents :
                      /\ target.uuid \in convs[agent]
                      /\ Goes(p, [Resuming(seen, agent, target.uuid) EXCEPT !.name = name])
  /\ UNCHANGED <<sessions, convs, ids, slain>>

(* _act("stop") and clean(): what was listed is removed by its name.       *)
Stop(p) ==
  /\ Asks(p)
  /\ \E target \in Targets : \E s \in sessions :
       /\ Hits(sessions, target) = {s}
       /\ Goes(p, [Idle EXCEPT !.pc = "remove", !.verb = "stop", !.old = {s}])
  /\ UNCHANGED <<sessions, convs, ids, slain, events>>

(* _stale(): exited, and long enough ago.                                  *)
Stale(s) == ~s.alive /\ s.stale
Clean(p) ==
  /\ Asks(p)
  /\ \E s \in {t \in sessions : Stale(t)} :
       Goes(p, [Idle EXCEPT !.pc = "remove", !.verb = "clean", !.old = {s},
                            !.doomed = {t \in sessions : Stale(t)} \ {s}])
  /\ UNCHANGED <<sessions, convs, ids, slain, events>>

(* kill-session, by name.                                                  *)
Remove(p) ==
  LET c == cmd[p]
      gone == UNION {Named(s.name) : s \in c.old}
  IN  /\ c.pc = "remove"
      /\ sessions' = sessions \ gone
      /\ slain' = (slain \/ (c.verb # "stop" /\ \E s \in gone : s.alive))
      /\ IF c.verb = "resume" /\ gone # {} THEN Goes(p, [c EXCEPT !.pc = "launch"])
         ELSE IF c.doomed # {}
         THEN \E s \in c.doomed : Goes(p, [c EXCEPT !.old = {s}, !.doomed = @ \ {s}])
         ELSE Ends(p)
      /\ UNCHANGED <<convs, ids, commands, events>>

(* _launch(): Claude's id is its conversation's, Codex's the one it had.   *)
Launch(p) ==
  LET c == cmd[p]
      id == IF c.agent = "claude" THEN c.conv
            ELSE IF c.old # {} THEN (CHOOSE s \in c.old : TRUE).id ELSE ids + 1
      twins == {t \in sessions : c.conv \in {t.thread, t.tag}}
      s == Session(c.born, IF c.name = Unnamed THEN Default(c.agent, id) ELSE c.name, id, c.agent,
                   IF c.agent = "claude" THEN c.conv ELSE Untagged, c.conv,
                   \/ c.blind \/ \E t \in c.old : t.asked
                   \/ twins # {} /\ \A t \in twins : t.asked \/ t.born \notin c.known,
                   {[id |-> t.id, tag |-> t.tag, thread |-> t.thread, took |-> c.conv] : t \in c.old})
  IN  /\ c.pc = "launch" /\ id <= MaxIds
      /\ ids' = IF id > ids THEN id ELSE ids
      /\ \/ Makes(s)
         \/ Named(s.name) # {} /\ UNCHANGED <<sessions, convs>>
      /\ Ends(p)
      /\ UNCHANGED <<slain, commands, events>>

-----------------------------------------------------------------------------
(* In the panes.  Codex saves a thread at the first message, or begins     *)
(* another; the watcher reads which it holds open, every two seconds.      *)
Becomes(s, t) == sessions' = (sessions \ {s}) \cup {t}

NewThread(s) ==
  /\ s.alive /\ s.agent = "codex" /\ ids < MaxIds /\ ids' = ids + 1
  /\ \/ s.thread = 0 /\ UNCHANGED events
     \/ s.thread # 0 /\ events < MaxEvents /\ events' = events + 1
  /\ convs' = [convs EXCEPT !["codex"] = @ \cup {ids'}]
  /\ Becomes(s, [s EXCEPT !.thread = ids'])
  /\ UNCHANGED <<cmd, slain, commands>>
Watch(s) ==
  /\ s.alive /\ s.agent = "codex" /\ s.thread \notin {0, s.tag}
  /\ Becomes(s, [s EXCEPT !.tag = s.thread])
  /\ UNCHANGED <<convs, ids, cmd, slain, commands, events>>
Exit(s) ==
  /\ s.alive /\ Becomes(s, [s EXCEPT !.alive = FALSE])
  /\ UNCHANGED <<convs, ids, cmd, slain, commands, events>>
DaysPass(s) ==
  /\ ~s.alive /\ ~s.stale /\ Becomes(s, [s EXCEPT !.stale = TRUE])
  /\ UNCHANGED <<convs, ids, cmd, slain, commands, events>>

Kill(p) ==
  /\ cmd[p] # Idle /\ events < MaxEvents /\ events' = events + 1 /\ Ends(p)
  /\ UNCHANGED <<sessions, convs, ids, slain, commands>>

Verb(p) == Start(p) \/ Resume(p) \/ Stop(p) \/ Clean(p)
Pane(s) == NewThread(s) \/ Watch(s) \/ Exit(s) \/ DaysPass(s)
Next ==
  \/ \E p \in Operators : Verb(p) \/ Remove(p) \/ Launch(p) \/ Kill(p)
  \/ \E s \in sessions : Pane(s)
Spec == Init /\ [][Next]_vars

-----------------------------------------------------------------------------
(* One conversation, one agent, one handle.  A resumed session keeps its   *)
(* id and goes on with what its agent was in the middle of, unless that    *)
(* exited before its watcher saw the thread; and no resume starts a second *)
(* agent on a conversation that the list it read shows running, except of  *)
(* one started on a conversation by hand, or while the box did not answer. *)
SessionsContinue ==
  /\ \A s \in sessions : \A f \in s.from :
       s.id = f.id /\ (f.took = f.thread \/ (s.agent = "codex" /\ f.tag # f.thread))
  /\ \A s, t \in Running : s.born # t.born /\ s.thread = t.thread /\ s.thread # 0 => s.asked \/ t.asked

(* fy agent clean: "A running agent is never touched, whatever its age"    *)
(* (agents.py:829).  Another terminal that resumes an exited session keeps *)
(* its name, and the name is what a clean that listed it removes.          *)
RunningNeverTouched == ~slain
=============================================================================
