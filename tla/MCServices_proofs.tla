-------------------------- MODULE MCServices_proofs ---------------------------
(* The invariants of the services, together: whichever of them a behaviour is *)
(* of keeps its own, for every value of the constants. What each is proved    *)
(* from is in CountingServices_proofs and WritingServices_proofs.             *)
EXTENDS MCServices, TLAPS
-----------------------------------------------------------------------------
(* All of them.                                                               *)

\* What the steps of the service that runs preserve.
ServicesInv ==
    /\ service = "codes" => Counting!Codes!IInv
    /\ service = "reset" => Writing!Reset!IInv
    /\ service = "rate" => Counting!Rate!IInv
    /\ service = "storage" => Counting!Storage!IInv
    /\ service = "events" => Writing!Events!IInv
    /\ service = "signUp" => Writing!SignUps!IInv
    /\ service = "hook" => Writing!Hooks!IInv
    /\ service = "rows" => Writing!Rows!IInv
    /\ service = "signIns" => Counting!SignIn!IInv
    /\ service = "credentials" => Writing!Credential!IInv
    /\ service = "cron" => Counting!Cron!IInv
    /\ service = "schedules" => Counting!Schedules!IInv
    /\ service = "indices" => Writing!Indices!IInv
    /\ service = "sources" => Writing!Declared!IInv
    /\ service = "openness" => Writing!Openness!Synced
    /\ service = "grants" => Counting!Grants!GrantsInv
    /\ service = "catchUp" => Counting!Missed!IInv

\* The service that runs starts within its invariant.
LEMMA ServicesStart == Init => ServicesInv
<1> SUFFICES ASSUME Init PROVE ServicesInv
  OBVIOUS
<1>1. ASSUME service = "codes" PROVE Counting!Codes!IInv
  BY <1>1, Counting!CodesStarts, ServicesAssumption DEF Init
<1>2. ASSUME service = "reset" PROVE Writing!Reset!IInv
  BY <1>2, Writing!ResetStarts, ServicesAssumption DEF Init
<1>3. ASSUME service = "rate" PROVE Counting!Rate!IInv
  BY <1>3, Counting!RateStarts, ServicesAssumption DEF Init
<1>4. ASSUME service = "storage" PROVE Counting!Storage!IInv
  BY <1>4, Counting!StorageStarts, ServicesAssumption DEF Init
<1>5. ASSUME service = "events" PROVE Writing!Events!IInv
  BY <1>5, Writing!EventsStarts, ServicesAssumption DEF Init
<1>6. ASSUME service = "signUp" PROVE Writing!SignUps!IInv
  BY <1>6, Writing!SignUpStarts, ServicesAssumption DEF Init
<1>7. ASSUME service = "hook" PROVE Writing!Hooks!IInv
  BY <1>7, Writing!HooksStarts, ServicesAssumption DEF Init
<1>8. ASSUME service = "rows" PROVE Writing!Rows!IInv
  BY <1>8, Writing!RowsStarts, ServicesAssumption DEF Init
<1>9. ASSUME service = "signIns" PROVE Counting!SignIn!IInv
  BY <1>9, Counting!SignInStarts, ServicesAssumption DEF Init
<1>10. ASSUME service = "credentials" PROVE Writing!Credential!IInv
  BY <1>10, Writing!CredentialStarts, ServicesAssumption DEF Init
<1>11. ASSUME service = "cron" PROVE Counting!Cron!IInv
  BY <1>11, Counting!CronStarts, ServicesAssumption DEF Init
<1>12. ASSUME service = "schedules" PROVE Counting!Schedules!IInv
  BY <1>12, Counting!SchedulesStarts, ServicesAssumption DEF Init
<1>13. ASSUME service = "indices" PROVE Writing!Indices!IInv
  BY <1>13, Writing!IndicesStarts, ServicesAssumption DEF Init
<1>14. ASSUME service = "sources" PROVE Writing!Declared!IInv
  BY <1>14, Writing!SourcesStarts, ServicesAssumption DEF Init
<1>15. ASSUME service = "openness" PROVE Writing!Openness!Synced
  BY <1>15, Writing!OpennessStarts, ServicesAssumption DEF Init
<1>16. ASSUME service = "grants" PROVE Counting!Grants!GrantsInv
  BY <1>16, Counting!GrantsStarts, ServicesAssumption DEF Init
<1>17. ASSUME service = "catchUp" PROVE Counting!Missed!IInv
  BY <1>17, Counting!MissedStarts, ServicesAssumption DEF Init
<1> QED BY <1>1, <1>2, <1>3, <1>4, <1>5, <1>6, <1>7, <1>8, <1>9, <1>10, <1>11, <1>12, <1>13,
  <1>14, <1>15, <1>16, <1>17 DEF ServicesInv

\* A step is of the one that runs.
LEMMA ServicesStepOfOne ==
    ASSUME [Next]_vars
    PROVE  /\ service' = service
           /\ service = "codes" => [Counting!Codes!Next]_(Counting!Codes!otpVars)
           /\ service = "reset" => [Writing!Reset!Next]_(Writing!Reset!resetVars)
           /\ service = "rate" => [Counting!Rate!Next]_(Counting!Rate!rateVars)
           /\ service = "storage" => [Counting!Storage!Next]_(Counting!Storage!storageVars)
           /\ service = "events" => [Writing!Events!Next]_(Writing!Events!logVars)
           /\ service = "signUp" => [Writing!SignUps!Next]_(Writing!SignUps!signUpVars)
           /\ service = "hook" => [Writing!Hooks!Next]_(Writing!Hooks!hookVars)
           /\ service = "rows" => [Writing!Rows!Next]_(Writing!Rows!ownedVars)
           /\ service = "signIns" => [Counting!SignIn!Next]_(Counting!SignIn!signInVars)
           /\ service = "credentials" => [Writing!Credential!Next]_(Writing!Credential!credentialVars)
           /\ service = "cron" => [Counting!Cron!Next]_(Counting!Cron!cronVars)
           /\ service = "schedules" => [Counting!Schedules!Next]_(Counting!Schedules!scheduleVars)
           /\ service = "indices" => [Writing!Indices!Next]_(Writing!Indices!indexVars)
           /\ service = "sources" => [Writing!Declared!Next]_(Writing!Declared!sourceVars)
           /\ service = "openness" => [Writing!Openness!Next]_(Writing!Openness!channelVars)
           /\ service = "grants" => [Counting!Grants!Next]_(Counting!Grants!channelVars)
           /\ service = "catchUp" => [Counting!Missed!Next]_(Counting!Missed!catchUpVars)
<1>0. service' = service
  BY DEF Next, Of, vars
<1>1. service = "codes" => [Counting!Codes!Next]_(Counting!Codes!otpVars)
  BY DEF Next, Of, vars, Counting!Codes!otpVars
<1>2. service = "reset" => [Writing!Reset!Next]_(Writing!Reset!resetVars)
  BY DEF Next, Of, vars, Writing!Reset!resetVars
<1>3. service = "rate" => [Counting!Rate!Next]_(Counting!Rate!rateVars)
  BY DEF Next, Of, vars, Counting!Rate!rateVars
<1>4. service = "storage" => [Counting!Storage!Next]_(Counting!Storage!storageVars)
  BY DEF Next, Of, vars, Counting!Storage!storageVars
<1>5. service = "events" => [Writing!Events!Next]_(Writing!Events!logVars)
  BY DEF Next, Of, vars, Writing!Events!logVars
<1>6. service = "signUp" => [Writing!SignUps!Next]_(Writing!SignUps!signUpVars)
  BY DEF Next, Of, vars, Writing!SignUps!signUpVars
<1>7. service = "hook" => [Writing!Hooks!Next]_(Writing!Hooks!hookVars)
  BY DEF Next, Of, vars, Writing!Hooks!hookVars
<1>8. service = "rows" => [Writing!Rows!Next]_(Writing!Rows!ownedVars)
  BY DEF Next, Of, vars, Writing!Rows!ownedVars
<1>9. service = "signIns" => [Counting!SignIn!Next]_(Counting!SignIn!signInVars)
  BY DEF Next, Of, vars, Counting!SignIn!signInVars
<1>10. service = "credentials" => [Writing!Credential!Next]_(Writing!Credential!credentialVars)
  BY DEF Next, Of, vars, Writing!Credential!credentialVars
<1>11. service = "cron" => [Counting!Cron!Next]_(Counting!Cron!cronVars)
  BY DEF Next, Of, vars, Counting!Cron!cronVars
<1>12. service = "schedules" => [Counting!Schedules!Next]_(Counting!Schedules!scheduleVars)
  BY DEF Next, Of, vars, Counting!Schedules!scheduleVars
<1>13. service = "indices" => [Writing!Indices!Next]_(Writing!Indices!indexVars)
  BY DEF Next, Of, vars, Writing!Indices!indexVars
<1>14. service = "sources" => [Writing!Declared!Next]_(Writing!Declared!sourceVars)
  BY DEF Next, Of, vars, Writing!Declared!sourceVars
<1>15. service = "openness" => [Writing!Openness!Next]_(Writing!Openness!channelVars)
  BY DEF Next, Of, vars, Writing!Openness!channelVars
<1>16. service = "grants" => [Counting!Grants!Next]_(Counting!Grants!channelVars)
  BY DEF Next, Of, vars, Counting!Grants!channelVars
<1>17. service = "catchUp" => [Counting!Missed!Next]_(Counting!Missed!catchUpVars)
  BY DEF Next, Of, vars, Counting!Missed!catchUpVars
<1> QED BY <1>0, <1>1, <1>2, <1>3, <1>4, <1>5, <1>6, <1>7, <1>8, <1>9, <1>10, <1>11, <1>12,
  <1>13, <1>14, <1>15, <1>16, <1>17

\* That one keeps its invariant.
LEMMA ServicesStep == ServicesInv /\ [Next]_vars => ServicesInv'
<1> SUFFICES ASSUME ServicesInv, [Next]_vars PROVE ServicesInv'
  OBVIOUS
<1>1. ASSUME service = "codes" PROVE Counting!Codes!IInv'
  BY <1>1, Counting!CodesSteps, ServicesStepOfOne, ServicesAssumption DEF ServicesInv
<1>2. ASSUME service = "reset" PROVE Writing!Reset!IInv'
  BY <1>2, Writing!ResetSteps, ServicesStepOfOne, ServicesAssumption DEF ServicesInv
<1>3. ASSUME service = "rate" PROVE Counting!Rate!IInv'
  BY <1>3, Counting!RateSteps, ServicesStepOfOne, ServicesAssumption DEF ServicesInv
<1>4. ASSUME service = "storage" PROVE Counting!Storage!IInv'
  BY <1>4, Counting!StorageSteps, ServicesStepOfOne, ServicesAssumption DEF ServicesInv
<1>5. ASSUME service = "events" PROVE Writing!Events!IInv'
  BY <1>5, Writing!EventsSteps, ServicesStepOfOne, ServicesAssumption DEF ServicesInv
<1>6. ASSUME service = "signUp" PROVE Writing!SignUps!IInv'
  BY <1>6, Writing!SignUpSteps, ServicesStepOfOne, ServicesAssumption DEF ServicesInv
<1>7. ASSUME service = "hook" PROVE Writing!Hooks!IInv'
  BY <1>7, Writing!HooksSteps, ServicesStepOfOne, ServicesAssumption DEF ServicesInv
<1>8. ASSUME service = "rows" PROVE Writing!Rows!IInv'
  BY <1>8, Writing!RowsSteps, ServicesStepOfOne, ServicesAssumption DEF ServicesInv
<1>9. ASSUME service = "signIns" PROVE Counting!SignIn!IInv'
  BY <1>9, Counting!SignInSteps, ServicesStepOfOne, ServicesAssumption DEF ServicesInv
<1>10. ASSUME service = "credentials" PROVE Writing!Credential!IInv'
  BY <1>10, Writing!CredentialSteps, ServicesStepOfOne, ServicesAssumption DEF ServicesInv
<1>11. ASSUME service = "cron" PROVE Counting!Cron!IInv'
  BY <1>11, Counting!CronSteps, ServicesStepOfOne, ServicesAssumption DEF ServicesInv
<1>12. ASSUME service = "schedules" PROVE Counting!Schedules!IInv'
  BY <1>12, Counting!SchedulesSteps, ServicesStepOfOne, ServicesAssumption DEF ServicesInv
<1>13. ASSUME service = "indices" PROVE Writing!Indices!IInv'
  BY <1>13, Writing!IndicesSteps, ServicesStepOfOne, ServicesAssumption DEF ServicesInv
<1>14. ASSUME service = "sources" PROVE Writing!Declared!IInv'
  BY <1>14, Writing!SourcesSteps, ServicesStepOfOne, ServicesAssumption DEF ServicesInv
<1>15. ASSUME service = "openness" PROVE Writing!Openness!Synced'
  BY <1>15, Writing!OpennessSteps, ServicesStepOfOne, ServicesAssumption DEF ServicesInv
<1>16. ASSUME service = "grants" PROVE Counting!Grants!GrantsInv'
  BY <1>16, Counting!GrantsSteps, ServicesStepOfOne, ServicesAssumption DEF ServicesInv
<1>17. ASSUME service = "catchUp" PROVE Counting!Missed!IInv'
  BY <1>17, Counting!MissedSteps, ServicesStepOfOne, ServicesAssumption DEF ServicesInv
<1> QED BY ServicesStepOfOne, <1>1, <1>2, <1>3, <1>4, <1>5, <1>6, <1>7, <1>8, <1>9, <1>10,
  <1>11, <1>12, <1>13, <1>14, <1>15, <1>16, <1>17 DEF ServicesInv

\* Whichever of the services runs keeps the invariant it is proved from.
THEOREM ServicesKept == Spec => []ServicesInv
BY ServicesStart, ServicesStep, PTL DEF Spec

\* A pending token is worth one session and a bounded number of guesses, whoever guesses, resends
\* and verifies at once, and a second session of a challenge is past a resend whose replacement
\* was lost (auth: sign_in/otp.ts, pending_token.ts).
THEOREM TokensSpentOnce == Spec => []ChallengeAnsweredOnce
<1>1. ServicesInv => ChallengeAnsweredOnce
  BY Counting!CodesAnswered, ServicesAssumption DEF ServicesInv, ChallengeAnsweredOnce
<1> QED BY <1>1, ServicesKept, PTL

\* Whatever fails or dies on the way, a sign-in leaves no session without an owner, a sign-up no
\* half a person and a proof of ownership no session, but for what could not be undone or was
\* not looked at (auth: sign_in/runner.ts, sign_up/runner.ts, password.ts).
THEOREM NobodyIsLeftHalf == Spec => []NothingLeftHalf
<1>1. ServicesInv => NothingLeftHalf
  BY Counting!CodesAnswered, Counting!SignInKept, Writing!SignUpKept,
     Writing!CredentialKept, ServicesAssumption DEF ServicesInv, NothingLeftHalf
<1> QED BY <1>1, ServicesKept, PTL

\* However its confirmations and completions interleave, one proof of ownership changes one
\* password (auth: reset_password.ts).
THEOREM ProofsChangeOnce == Spec => []OneChangePerProof
<1>1. ServicesInv => OneChangePerProof
  BY Writing!ResetKept, ServicesAssumption DEF ServicesInv, OneChangePerProof
<1> QED BY <1>1, ServicesKept, PTL

\* No bucket lets more through than its limit, what it says remains can be used, a block doubles
\* the one before it, and a recipient is guessed at no more than its limit and the calls that
\* were under way allow (foundation: rate_limit; auth: sign_in/runner.ts).
THEOREM LimitsAreKept == Spec => []LimitsHold
<1>1. ServicesInv => LimitsHold
  BY Counting!RateKept, Counting!SignInKept, ServicesAssumption DEF ServicesInv, LimitsHold
<1> QED BY <1>1, ServicesKept, PTL

\* At rest the row of a path and the bytes of both buckets agree, and a clearing that answers Ok
\* emptied its folder, whichever writes it met (storage: runtime/resource.ts, core/storage.ts).
THEOREM RowsAgreeWithBytes == Spec => []StorageAgrees
<1>1. ServicesInv => StorageAgrees
  BY Counting!StorageKept, ServicesAssumption DEF ServicesInv, StorageAgrees
<1> QED BY <1>1, ServicesKept, PTL

\* An emission is in the log once and in its order when its caller is told so, whichever flushes
\* ran before, failed or lost an answer (realtime: transport/event_log.ts).
THEOREM EmissionsOnce == Spec => []EmissionsKept
<1>1. ServicesInv => EmissionsKept
  BY Writing!EventsKept, ServicesAssumption DEF ServicesInv, EmissionsKept
<1> QED BY <1>1, ServicesKept, PTL

\* The background of a hook is queued for nothing a handler refused, but for an emission that gave
\* up on one or came from within one (foundation: hook.ts, hook_channel.ts).
THEOREM RefusalsLeaveNothing == Spec => []NothingBehindARefusal
<1>1. ServicesInv => NothingBehindARefusal
  BY Writing!HooksKept, ServicesAssumption DEF ServicesInv, NothingBehindARefusal
<1> QED BY <1>1, ServicesKept, PTL

\* The device token a client keeps is the one its row holds, but for what two sign-ins do to one
\* another and an answer nobody saw (auth: devices/devices.ts, devices/repository.ts).
THEOREM TokenIsKnown == Spec => []DeviceTokenKnown
<1>1. ServicesInv => DeviceTokenKnown
  BY Counting!SignInKept, ServicesAssumption DEF ServicesInv, DeviceTokenKnown
<1> QED BY <1>1, ServicesKept, PTL

\* No step of a query moves a row of an owned table between callers, but for the queries compiled
\* while the table was open, upserts that conflict and the payloads of workers (foundation:
\* database/query, database/capability.ts).
THEOREM RowsStay == Spec => RowsKeepTheirOwner
<1>1. ASSUME ServicesInv, [Next]_vars, service = "rows" PROVE Writing!Rows!RowsKept
  BY <1>1, Writing!RowsKept, ServicesStepOfOne, ServicesAssumption DEF ServicesInv
<1>2. ServicesInv /\ [Next]_vars => (service = "rows" => Writing!Rows!RowsKept)
  BY <1>1
<1> QED BY <1>2, ServicesKept, PTL DEF Spec, RowsKeepTheirOwner

\* An occurrence is executed once while it is current, a job overlaps itself only behind a run
\* past its timeout, an occurrence nobody executed was missed by every replica or touched by a
\* fault, and every replica names the instants its schedule names (foundation: cron).
THEOREM OccurrencesRun == Spec => []OccurrencesRunOnce
<1>1. ServicesInv => OccurrencesRunOnce
  BY Counting!CronKept, Counting!SchedulesKept, ServicesAssumption DEF ServicesInv,
     OccurrencesRunOnce
<1> QED BY <1>1, ServicesKept, PTL

\* A change of a declared table is logged under its key and its outbox is emptied by whichever
\* process heard of it, and a table is indexed to the sets declared of it, but for what another
\* process re-keyed or took away meanwhile and the commands that failed (triggers:
\* trigger_sources.ts, trigger_match.ts; search: db/indices.ts).
THEOREM DeclaredArrive == Spec => []DeclaredChangesArrive
<1>1. ServicesInv => DeclaredChangesArrive
  BY Writing!SourcesKept, Writing!IndicesKept, ServicesAssumption DEF ServicesInv,
     DeclaredChangesArrive
<1> QED BY <1>1, ServicesKept, PTL

\* A channel is as open as the processes that are up declare it, unless they declare it differently
\* or a sync was refused, a grant is as it was answered unless two requests met on it, a listing of
\* them misses nobody who stayed, and a client that was away holds the rows there are, but for those
\* the log cannot tell it of (realtime: db/channels.ts, db/grants.ts, realtime.sql).
THEOREM ChannelsHeard == Spec => []ChannelsHeardAsDeclared
<1>1. ServicesInv => ChannelsHeardAsDeclared
  BY Writing!OpennessKept, Counting!GrantsKept, Counting!MissedKept, ServicesAssumption DEF
     ServicesInv, ChannelsHeardAsDeclared
<1> QED BY <1>1, ServicesKept, PTL
=============================================================================
