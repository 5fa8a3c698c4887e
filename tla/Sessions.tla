------------------------------ MODULE Sessions ------------------------------
(***************************************************************************)
(* The sessions of claw-guard (src/src/session.rs): rows of the `sessions` *)
(* table, the JWT handed out for each of them, and the calls that create,  *)
(* validate, assert, revoke and list them.                                 *)
(*                                                                         *)
(* Two notions of expiry meet here: the row holds milliseconds, the JWT    *)
(* holds whole seconds and its library grants a leeway.  Time passes       *)
(* between any two steps of a call.  The sessions are those of one agent,  *)
(* the one whose active sessions are listed.                               *)
(***************************************************************************)
EXTENDS Integers, SequencesExt

CONSTANTS
  SessionIds,   \* the fresh ids create_session may draw
  Clients,      \* tasks that call the session manager
  Walkers,      \* tasks that page through list_active_sessions
  Ttls,         \* ttl_secs as the requests carry them (i64)
  MaxTtl,       \* the largest ttl chrono's Duration can hold, in seconds
  WordSize,     \* 2^64, or less in a small instance
  MsPerSec,     \* 1000, or less in a small instance
  Leeway,       \* seconds of leeway of jsonwebtoken's Validation
  Limits,       \* page sizes, 0 included
  NoSession,    \* an id without a row, a token that is not the guard's
  MaxClock      \* bound of the clock

ASSUME SessionConstants ==
  /\ IsFiniteSet(SessionIds) /\ NoSession \notin SessionIds
  /\ Ttls \subseteq Int
  /\ MaxTtl \in Nat
  /\ MsPerSec \in Nat \ {0}
  /\ WordSize \in Nat /\ WordSize > 2 * MaxTtl /\ WordSize > 2 * (MaxClock + MaxTtl)
  /\ \A ttl \in Ttls : -WordSize <= 2 * ttl /\ 2 * ttl < WordSize
  /\ Leeway \in Nat
  /\ Limits \subseteq Nat
  /\ MaxClock \in Nat

VARIABLES
  clock,     \* Utc::now() in milliseconds
  sessions,  \* the `sessions` table
  created,   \* the ids in the order of insertion
  call,      \* the state of each client
  walk,      \* the state of each walk through the pages
  acked      \* ghost: the ids for which some revoke_session has returned

vars == <<clock, sessions, created, call, walk, acked>>

-----------------------------------------------------------------------------
(* Numbers.                                                                *)

\* `as u64`, `as usize` and `as i64` of Rust.
AsUnsigned(i) == i % WordSize

AsSigned(u) == IF 2 * u >= WordSize THEN u - WordSize ELSE u

Seconds(ms) == ms \div MsPerSec

(* The gRPC handler casts ttl_secs to u64, create_session back to i64.     *)
TtlSecs(ttl) == AsSigned(AsUnsigned(ttl))

\* Mutant: the cast back to a signed number is forgotten.
ExpiresAtUnsigned(now, ttl) == now + AsUnsigned(ttl) * MsPerSec

ExpiresAt(now, ttl) == now + TtlSecs(ttl) * MsPerSec

(* Duration::seconds and DateTime + Duration panic when out of range.      *)
TtlInRange(ttl) == TtlSecs(ttl) <= MaxTtl /\ -MaxTtl <= TtlSecs(ttl)

\* Mutant: the claim allows for the leeway, and is rounded down twice.
ExpClaimEarly(row) == AsUnsigned(Seconds(row.expires) - 1 - Leeway)

(* The `exp` claim of the token of a row.                                  *)
ExpClaim(row) == AsUnsigned(Seconds(row.expires))

(* jsonwebtoken's decode with validate_exp = true.                         *)
JwtExpired(row) == ExpClaim(row) < Seconds(clock) - Leeway

-----------------------------------------------------------------------------
(* Calls.                                                                  *)

(* A call, the row in its hands and what was true when it started: whether *)
(* its session had expired (late), and whether a revocation of it had been *)
(* acknowledged (dead).                                                    *)
Call(op, pc, sid, row, late, dead) ==
  [op |-> op, pc |-> pc, sid |-> sid, row |-> row,
   late |-> late, dead |-> dead, result |-> "none"]

Idle == Call("none", "idle", NoSession, NoSession, FALSE, FALSE)

WalkIdle ==
  [pc |-> "idle", limit |-> 0, offset |-> 0, pages |-> <<>>, first |-> {},
   last |-> {}, joined |-> FALSE, left |-> FALSE]

Init ==
  /\ clock = 0
  /\ sessions = [s \in SessionIds |-> NoSession]
  /\ created = <<>>
  /\ call = [c \in Clients |-> Idle]
  /\ walk = [w \in Walkers |-> WalkIdle]
  /\ acked = {}

Tick ==
  /\ clock < MaxClock
  /\ clock' = clock + 1
  /\ UNCHANGED <<sessions, created, call, walk, acked>>

Known == {s \in SessionIds : sessions[s] # NoSession}

(* The sessions whose expires_at has passed.                               *)
Expired == {s \in Known : sessions[s].expires <= clock}

Reserved == {call[c].sid : c \in Clients}

(* What a SELECT ... WHERE id = ?1 finds.                                  *)
RowOf(s) == IF s \in SessionIds THEN sessions[s] ELSE NoSession

(* Callers present what create_session gave out, or anything else.         *)
Presented == Known \cup {NoSession}

Answer(c, result) == call' = [call EXCEPT ![c].pc = "done", ![c].row = NoSession,
                                               ![c].result = result]

(* create_session up to the INSERT: the id, the times and the token.       *)
CreateSession(c) ==
  /\ call[c].pc = "idle"
  /\ \E s \in SessionIds \ (Known \cup Reserved), ttl \in Ttls :
       /\ TtlInRange(ttl)
       /\ call' = [call EXCEPT ![c] =
            Call("create", "insert", s,
                 [made |-> clock, expires |-> ExpiresAt(clock, ttl), revoked |-> FALSE],
                 FALSE, FALSE)]
  /\ UNCHANGED <<clock, sessions, created, walk, acked>>

InsertSession(c) ==
  /\ call[c].pc = "insert"
  /\ sessions' = [sessions EXCEPT ![call[c].sid] = call[c].row]
  /\ created' = Append(created, call[c].sid)
  /\ Answer(c, "Ok")
  /\ UNCHANGED <<clock, walk, acked>>

(* validate_session on a token, assert_session_active on a session.        *)
StartCheck(c, op) ==
  /\ call[c].pc = "idle"
  /\ \E s \in Presented :
       call' = [call EXCEPT ![c] =
         Call(op, IF op = "validate" THEN "decode" ELSE "read", s, NoSession,
              s \in Expired, s \in acked)]
  /\ UNCHANGED <<clock, sessions, created, walk, acked>>

ValidateSession(c) == StartCheck(c, "validate")

AssertSessionActive(c) == StartCheck(c, "assert")

(* The token of a session carries the claims create_session put into it.   *)
DecodeToken(c) ==
  /\ call[c].pc = "decode"
  /\ IF RowOf(call[c].sid) = NoSession \/ JwtExpired(RowOf(call[c].sid))
     THEN Answer(c, "InvalidToken")
     ELSE call' = [call EXCEPT ![c].pc = "read"]
  /\ UNCHANGED <<clock, sessions, created, walk, acked>>

(* SELECT ... WHERE id = ?1; the checks follow when the row has arrived.   *)
ReadRow(c) ==
  /\ call[c].pc = "read"
  /\ call' = [call EXCEPT ![c].pc = "check", ![c].row = RowOf(call[c].sid)]
  /\ UNCHANGED <<clock, sessions, created, walk, acked>>

\* Mutant: the row's expiry is left to the JWT library.
CheckedJwtOnly(row) == IF row.revoked THEN "SessionRevoked" ELSE "Ok"

\* Mutant: the row's revocation is not looked at.
CheckedExpiryOnly(row) == IF row.expires <= clock THEN "SessionExpired" ELSE "Ok"

Checked(row) ==
  CASE row.revoked -> "SessionRevoked"
    [] ~row.revoked /\ row.expires <= clock -> "SessionExpired"
    [] ~row.revoked /\ row.expires > clock -> "Ok"

CheckRow(c) ==
  /\ call[c].pc = "check"
  /\ Answer(c, IF call[c].row = NoSession THEN "InvalidToken" ELSE Checked(call[c].row))
  /\ UNCHANGED <<clock, sessions, created, walk, acked>>

RevokeSession(c) ==
  /\ call[c].pc = "idle"
  /\ \E s \in Presented :
       call' = [call EXCEPT ![c] =
         Call("revoke", "update", s, NoSession, FALSE, FALSE)]
  /\ UNCHANGED <<clock, sessions, created, walk, acked>>

\* Mutant: the row is deleted.
UpdateDeletes(c) ==
  /\ call[c].pc = "update"
  /\ sessions' = [s \in SessionIds |-> IF s = call[c].sid THEN NoSession ELSE sessions[s]]
  /\ Answer(c, "Ok")
  /\ UNCHANGED <<clock, created, walk, acked>>

UpdateRevoked(c) ==
  /\ call[c].pc = "update"
  /\ sessions' = [s \in SessionIds |->
       IF s = call[c].sid THEN [sessions[s] EXCEPT !.revoked = TRUE] ELSE sessions[s]]
  /\ Answer(c, "Ok")
  /\ UNCHANGED <<clock, created, walk, acked>>

(* The caller takes the answer.                                            *)
Return(c) ==
  /\ call[c].pc = "done"
  /\ acked' = IF call[c].op = "revoke" THEN acked \cup ({call[c].sid} \cap SessionIds) ELSE acked
  /\ call' = [call EXCEPT ![c] = Idle]
  /\ UNCHANGED <<clock, sessions, created, walk>>

(* A database error before the statement ran, or a dropped task.           *)
CallAborted(c) ==
  /\ call[c].pc \in {"insert", "read", "check", "update", "done"}
  /\ call' = [call EXCEPT ![c] = Idle]
  /\ UNCHANGED <<clock, sessions, created, walk, acked>>

-----------------------------------------------------------------------------
(* list_active_sessions, page after page.                                  *)

Active(s) == ~sessions[s].revoked /\ sessions[s].expires > clock

ActiveSet == {s \in Known : Active(s)}

InsertedBefore(x, y) ==
  \E i, j \in DOMAIN created : i < j /\ created[i] = x /\ created[j] = y

(* ORDER BY created_at DESC; ties in the order of insertion.               *)
ListedBefore(x, y) ==
  \/ sessions[x].made > sessions[y].made
  \/ sessions[x].made = sessions[y].made /\ InsertedBefore(x, y)

(* How many sessions of a set are listed before s.                         *)
Place(set, s) == Cardinality({x \in set : ListedBefore(x, s)})

(* LIMIT and OFFSET: past the end a page is empty.  Limits and offsets     *)
(* below 2^63 pass their casts to i64 unchanged; larger ones, which SQLite *)
(* would see as negative, are not modelled.                                *)
Page(offset, limit) ==
  {s \in ActiveSet : offset <= Place(ActiveSet, s) /\ Place(ActiveSet, s) < offset + limit}

StartWalk(w) ==
  /\ walk[w].pc = "idle"
  /\ \E limit \in Limits :
       walk' = [walk EXCEPT ![w] =
         [WalkIdle EXCEPT !.pc = "page", !.limit = limit, !.first = ActiveSet,
                          !.last = ActiveSet]]
  /\ UNCHANGED <<clock, sessions, created, call, acked>>

\* Mutant: offsets count from one.
NextOffsetFromOne(offset, limit) == offset + limit + 1

\* Mutant: the last item of a page is taken for the first of the next.
NextOffsetInclusive(offset, limit) == offset + limit - 1

NextOffset(offset, limit) == offset + limit

(* One page of list_active_sessions: next_offset is Some exactly when the  *)
(* page is full, so a walk with a limit of 0 gets the same offset back for *)
(* as long as it asks.  joined and left remember whether a session became  *)
(* active or ceased to be since the page before.                           *)
ListActiveSessions(w) ==
  LET v == walk[w]
      items == Page(v.offset, v.limit)
      full == Cardinality(items) = v.limit
      next == NextOffset(v.offset, v.limit)
  IN
  /\ v.pc = "page"
  /\ walk' = [walk EXCEPT ![w] =
       [v EXCEPT !.pc = IF full THEN "page" ELSE "end",
                 !.offset = IF full THEN next ELSE v.offset,
                 !.pages = Append(v.pages, items),
                 !.last = ActiveSet,
                 !.joined = v.joined \/ ~(ActiveSet \subseteq v.last),
                 !.left = v.left \/ ~(v.last \subseteq ActiveSet)]]
  /\ UNCHANGED <<clock, sessions, created, call, acked>>

EndWalk(w) ==
  /\ walk[w].pc # "idle"
  /\ walk' = [walk EXCEPT ![w] = WalkIdle]
  /\ UNCHANGED <<clock, sessions, created, call, acked>>

-----------------------------------------------------------------------------
ClientStep(c) ==
  \/ CreateSession(c)
  \/ InsertSession(c)
  \/ ValidateSession(c)
  \/ AssertSessionActive(c)
  \/ DecodeToken(c)
  \/ ReadRow(c)
  \/ CheckRow(c)
  \/ RevokeSession(c)
  \/ UpdateRevoked(c)
  \/ Return(c)
  \/ CallAborted(c)

WalkStep(w) == StartWalk(w) \/ ListActiveSessions(w) \/ EndWalk(w)

Next ==
  \/ Tick
  \/ \E c \in Clients : ClientStep(c)
  \/ \E w \in Walkers : WalkStep(w)

Spec == Init /\ [][Next]_vars

-----------------------------------------------------------------------------
(* Properties.                                                             *)

Results == {"none", "Ok", "InvalidToken", "SessionRevoked", "SessionExpired"}

(* The times a row can hold: the ttl moves expires_at away from the time   *)
(* of creation by what chrono can represent, in either direction.          *)
Expiries == (-(MaxTtl * MsPerSec)) .. (MaxClock + MaxTtl * MsPerSec)

Row == [made : 0..MaxClock, expires : Expiries, revoked : BOOLEAN]

ASSUME NoSessionIsNoRow == NoSession \notin Row

CallType ==
  [op : {"none", "create", "validate", "assert", "revoke"},
   pc : {"idle", "insert", "decode", "read", "check", "update", "done"},
   sid : SessionIds \cup {NoSession}, row : Row \cup {NoSession},
   late : BOOLEAN, dead : BOOLEAN, result : Results]

WalkType ==
  [pc : {"idle", "page", "end"}, limit : Nat, offset : Nat, pages : Seq(SUBSET SessionIds),
   first : SUBSET SessionIds, last : SUBSET SessionIds,
   joined : BOOLEAN, left : BOOLEAN]

TokenTypes ==
  /\ clock \in 0..MaxClock
  /\ sessions \in [SessionIds -> Row \cup {NoSession}]
  /\ call \in [Clients -> CallType]
  /\ acked \subseteq SessionIds

(* Types.  In particular a ttl that arrives negative stays one: it yields  *)
(* a session that has expired, never one that lives for 2^64 seconds.      *)
TypeOK ==
  /\ TokenTypes
  /\ created \in Seq(SessionIds)
  /\ walk \in [Walkers -> WalkType]

Accepted(c) ==
  call[c].pc = "done" /\ call[c].op \in {"validate", "assert"} /\ call[c].result = "Ok"

(* Once some revoke_session has returned, no validate_session and no       *)
(* assert_session_active that starts afterwards accepts the session, no    *)
(* matter what else runs between its steps.                                *)
RevokedStaysOut == \A c \in Clients : Accepted(c) => ~call[c].dead

(* A session that had expired when the call started is not accepted: the   *)
(* leeway and the whole seconds of the JWT never outlast the row's         *)
(* expires_at, and a negative ttl never yields a session that works.       *)
ExpiredStaysOut == \A c \in Clients : Accepted(c) => ~call[c].late

(* A refusal is deserved: a session is called revoked only if it is, and   *)
(* expired, or its token invalid, only at or after its expires_at, so the  *)
(* JWT never dies before the row does.                                     *)
RejectionsTruthful ==
  \A c \in Clients : call[c].pc = "done" /\ call[c].sid # NoSession =>
    /\ call[c].result = "SessionRevoked" => sessions[call[c].sid].revoked
    /\ call[c].result \in {"SessionExpired", "InvalidToken"} =>
         sessions[call[c].sid].expires <= clock

-----------------------------------------------------------------------------
(* What the rows, the clock and the calls amount to for module SessionGate.*)

Revoked == {s \in Known : sessions[s].revoked}

SessionChecks == {"validate", "assert"}

(* A check is past the moment that decides about the revocation when it    *)
(* has the row in its hands.                                               *)
CheckOf(k) ==
  IF k.op \in SessionChecks
  THEN [pc |-> IF k.pc = "done" THEN "done" ELSE IF k.row = NoSession THEN "select" ELSE "judge",
        sid |-> k.sid, verdict |-> k.result]
  ELSE [pc |-> "idle", sid |-> NoSession, verdict |-> "none"]

Checks == [c \in Clients |-> CheckOf(call[c])]

FoundRevoked(k) == k.op \in SessionChecks /\ k.row # NoSession /\ k.row.revoked

Marked == {c \in Clients : FoundRevoked(call[c])}

Gate == INSTANCE SessionGate
          WITH issued <- Known, revoked <- Revoked, expired <- Expired,
               check <- Checks, marked <- Marked

(* The rows, casts, clocks and tokens of session.rs implement the session  *)
(* check that module Guard relies on: a revocation counts from the moment  *)
(* its row is selected, an expiry at the moment of the answer, and a token *)
(* is invalid only when its session has expired or never existed.          *)
ImplementsGate == Gate!Spec

-----------------------------------------------------------------------------
(* A walk through the pages of list_active_sessions reports every session  *)
(* that was active at its start, whatever is created meanwhile, as long as *)
(* no session is revoked or expires between its pages.                     *)
WalkMissesNothing ==
  \A w \in Walkers :
    walk[w].pc = "end" /\ ~walk[w].left => walk[w].first \subseteq UNION Range(walk[w].pages)

(* It reports no session twice, whatever is revoked or expires meanwhile,  *)
(* as long as none is created between its pages.                           *)
WalkRepeatsNothing ==
  \A w \in Walkers : ~walk[w].joined =>
    \A i, j \in DOMAIN walk[w].pages : i # j => walk[w].pages[i] \cap walk[w].pages[j] = {}

=============================================================================
