-------------------------------- MODULE Auth --------------------------------
(***************************************************************************)
(* Room tokens (apps/core/src/auth): TokenGenerator, TokenValidator,       *)
(* AuthService, RoomAccessPolicy and the auth middleware.  A token is its  *)
(* payload and the secret it was signed with; times are whole seconds.     *)
(* Hosts share the secret and not the clock: the issuer's may be off by up *)
(* to the skew that the validator allows for.                              *)
(***************************************************************************)
EXTENDS Integers, FiniteSets

CONSTANTS RoomIds,       \* room ids as they are sent
          Trim,          \* room id -> the id without blanks around it, or ""
          WellFormed,    \* trimmed ids that fit allowedRoomIdPattern
          Secrets, Secret, \* HMAC secrets; the one the service was built with
          Grants,        \* sets of permissions that tokens are asked for
          Ttls, MaxTtl,  \* lifetimes asked for; 86400 * 7
          Skew,          \* config.clockSkewSeconds
          Capacity,      \* RoomAccessPolicyConfig.maxPeersPerRoom
          AnonymousJoin, AnonymousCreate, \* allowAnonymousJoin, allowAnonymousCreate
          TokenRequired, \* requireTokenForJoin and requireTokenForCreate
          Nobody,        \* no token; no room
          Start,         \* the first second of a behaviour: not 0, which is no iat
          MaxSecond,     \* bound: the last second
          MaxTokens      \* bound: tokens issued

ASSUME AuthAssumption ==
    /\ Skew \in Nat
    /\ MaxTtl \in Nat
    /\ Ttls \subseteq Int
    /\ Start \in Nat /\ Start > Skew
    /\ MaxSecond \in Nat
    /\ Trim \in [RoomIds -> RoomIds \cup {Nobody}]

Actions == {"create", "join", "admin"}

VARIABLES seconds,  \* the clock of the validator's host, in seconds
          tokens,   \* tokens issued, with the second they were born in (history)
          served    \* the last request the guarded route answered

authVars == <<seconds, tokens, served>>

Anonymous == [authenticated |-> FALSE, room |-> Nobody, permissions |-> {}]

AuthInit == /\ seconds = Start
            /\ tokens = {}
            /\ served = [token |-> Nobody, room |-> Nobody, action |-> "join",
                         optional |-> TRUE, passed |-> FALSE, auth |-> Anonymous]

-----------------------------------------------------------------------------
(* TokenGenerator *)

\* assertValidPayload, and the check that a permission is left after normalising.
ValidPayload(room, permissions, ttl) == /\ ttl \in 1 .. MaxTtl
                                        /\ permissions # {}
                                        /\ Trim[room] # Nobody

\* issueToken on a host whose clock is off by offset, with the secret it was
\* built with or the one rotateSecret gave it.  A payload that is not valid
\* throws; the room id is trimmed.
IssueToken(secret, room, permissions, ttl, offset) ==
    /\ Cardinality(tokens) < MaxTokens
    /\ ValidPayload(room, permissions, ttl)
    /\ tokens' = tokens \cup
         {[room |-> Trim[room], permissions |-> permissions, secret |-> secret,
           iat |-> seconds + offset, exp |-> seconds + offset + ttl, born |-> seconds]}
    /\ UNCHANGED <<seconds, served>>

-----------------------------------------------------------------------------
(* TokenValidator *)

\* Mutant: the skew shortens the lifetime instead of lengthening it.
ExpiredEarly(t) == seconds + Skew > t.exp

IsExpired(t) == seconds > t.exp + Skew

IsNotYetValid(t) == seconds + Skew < t.iat

\* validate: the signature, then the times, then the fields.  What was issued
\* has all its fields, and its issuer is the configured one.
Validate(t) == CASE t.secret # Secret -> "invalid_signature"
                 [] t.secret = Secret /\ IsNotYetValid(t) -> "not_yet_valid"
                 [] t.secret = Secret /\ ~IsNotYetValid(t) /\ IsExpired(t) -> "expired"
                 [] OTHER -> "valid"

\* hasPermission of types.ts and of AuthService.
HasPermission(held, required) == "admin" \in held \/ required \in held

\* validateForRoomAndPermission
ValidForRoom(t, room, required) == /\ Validate(t) = "valid"
                                   /\ t.room = room
                                   /\ HasPermission(t.permissions, required)

-----------------------------------------------------------------------------
(* AuthService and RoomAccessPolicy *)

\* createAuthContextFromPayload
ContextOf(t) == [authenticated |-> TRUE, room |-> t.room, permissions |-> t.permissions]

\* resolveAuthContext: without a token, and with one that is refused, anonymous.
ResolveAuthContext(t) ==
    IF t # Nobody /\ Validate(t) = "valid" THEN ContextOf(t) ELSE Anonymous

\* validateRoomId
RoomIdValid(room) == Trim[room] \in WellFormed

AnonymousMay(action) == \/ action = "join" /\ AnonymousJoin /\ ~TokenRequired
                        \/ action = "create" /\ AnonymousCreate /\ ~TokenRequired

\* evaluateCreate, evaluateJoin and evaluateAdmin: a room that is full refuses
\* before the token is looked at; its room is compared with the id as it came.
ActionPermitted(action, auth, room, count) ==
    /\ action = "join" => count < Capacity
    /\ IF auth.authenticated
       THEN auth.room = room /\ HasPermission(auth.permissions, action)
       ELSE AnonymousMay(action)

\* RoomAccessPolicy.evaluate for a subject that is not blocked.
Evaluate(action, auth, room, count) == RoomIdValid(room) /\ ActionPermitted(action, auth, room, count)

-----------------------------------------------------------------------------
(* The middleware *)

\* Mutant: a token that is refused makes the request anonymous.
ServeAnonymously(t, room, required, optional) ==
    LET auth == ResolveAuthContext(t)
        passed == \/ ~auth.authenticated /\ optional
                  \/ auth.authenticated /\ auth.room = room /\ HasPermission(auth.permissions, required)
    IN /\ served' = [token |-> t, room |-> room, action |-> required,
                     optional |-> optional, passed |-> passed, auth |-> auth]
       /\ UNCHANGED <<seconds, tokens>>

\* createAuthMiddleware with roomIdParam and requiredPermission: request.auth is
\* set before the scope and the permission are checked, and stays on a refused
\* request.
Serve(t, room, required, optional) ==
    LET valid == t # Nobody /\ Validate(t) = "valid"
        auth == IF valid THEN ContextOf(t) ELSE Anonymous
        passed == \/ t = Nobody /\ optional
                  \/ valid /\ t.room = room /\ HasPermission(t.permissions, required)
    IN /\ served' = [token |-> t, room |-> room, action |-> required,
                     optional |-> optional, passed |-> passed, auth |-> auth]
       /\ UNCHANGED <<seconds, tokens>>

PassSecond(s) == /\ s > seconds
                 /\ seconds' = s
                 /\ UNCHANGED <<tokens, served>>

AuthNext ==
    \/ \E secret \in Secrets, room \in RoomIds, permissions \in Grants,
          ttl \in Ttls, offset \in -Skew .. Skew :
          IssueToken(secret, room, permissions, ttl, offset)
    \/ \E t \in tokens \cup {Nobody}, room \in RoomIds, required \in Actions, optional \in BOOLEAN :
          Serve(t, room, required, optional)
    \/ \E s \in Start .. MaxSecond : PassSecond(s)

AuthSpec == AuthInit /\ [][AuthNext]_authVars

-----------------------------------------------------------------------------
\* A token of this service can be used from the second it is issued until the
\* lifetime it was asked for is over, on any host whose clock is within the
\* skew, and never later than twice the skew after that.  No other secret's is.
UsableForItsLifetime ==
    \A t \in tokens :
        LET ends == t.born + (t.exp - t.iat)
        IN /\ t.secret = Secret /\ seconds <= ends => Validate(t) = "valid"
           /\ Validate(t) = "valid" => t.secret = Secret /\ seconds <= ends + 2 * Skew

\* The three places that decide about a token agree: what the guarded route
\* lets through with one, validateForRoomAndPermission accepts and, in a room
\* with place and a well-formed id, RoomAccessPolicy permits, and the reverse; a
\* refused token never passes as none, and a route that is not optional lets
\* nobody through without a token.
ChecksAgree ==
    \A t \in tokens \cup {Nobody}, room \in RoomIds, required \in Actions :
        LET accepted == t # Nobody /\ ValidForRoom(t, room, required)
            permitted == Evaluate(required, ResolveAuthContext(t), room, 0)
        IN /\ t # Nobody /\ Validate(t) = "valid" /\ Trim[room] \in WellFormed =>
                 (accepted <=> permitted)
           /\ served.token = t /\ served.room = room /\ served.action = required
                /\ served.auth = ResolveAuthContext(t) /\ served.passed =>
                  accepted \/ (served.optional /\ t = Nobody)
=============================================================================
