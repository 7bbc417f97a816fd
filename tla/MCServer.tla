------------------------------ MODULE MCServer ------------------------------
(* The server's own state and its accounts, one component at a time: the   *)
(* components share no state, so a behaviour moves the one in focus and    *)
(* the others stand still.                                                 *)
EXTENDS Migrations, Settings, Sessions, PasswordReset, SuperAdmins, RateLimit, Organizations, Authorization, TLC

CONSTANT Focus
VARIABLE focus

\* The release before, two that left the other's script out, one that
\* edited a script, and the union; and what operators had set up by hand.
MCBinaries == {1 :> "a" @@ 2 :> "a", 1 :> "a" @@ 3 :> "a", 1 :> "a" @@ 2 :> "b", 1 :> "a" @@ 2 :> "a" @@ 3 :> "a"}
MCByHand == {1 :> "a", 1 :> "a" @@ 2 :> "a"}
MCDefaults == "latest" :> Empty @@ "min" :> Empty @@ "access" :> 1 @@ "refresh" :> 2

\* An account whose password is changed twice while nothing fails, or one
\* that has changed it before, with a failing statement.
MCSessInit ==
    IF focus = "sessions"
    THEN /\ \/ user = [present |-> TRUE, pw |-> 0] /\ sfaults = MaxSFaults
            \/ user = [present |-> TRUE, pw |-> 1] /\ sfaults = 0
         /\ tok = [t \in Toks |-> NoTok] /\ rq = [r \in SReqs |-> Idle]
         /\ straddled = {} /\ halfDone = FALSE
    ELSE SessInit

MCInit ==
    /\ focus \in Focus
    /\ MigInit /\ SetInit /\ MCSessInit /\ ResetInit /\ SuperInit /\ LimitInit /\ OrgInit /\ AuthInit
    /\ focus # "schema" => dbSchema = <<>>
    /\ focus # "limit" => rate = 1
    /\ focus # "auth" => granted = {} /\ arole = CHOOSE x \in RoleKeys : TRUE

\* Requests for a link overlap, or one of their statements fails: together
\* they leave nothing of SerialResetsAgree to look at.
MCNext ==
    /\ \/ focus = "schema" /\ MigNext /\ UNCHANGED <<cvars, svars, pvars, avars, lvars, ovars, zvars>>
       \/ focus = "settings" /\ ServiceNext /\ UNCHANGED <<mvars, svars, pvars, avars, lvars, ovars, zvars>>
       \/ focus = "channel" /\ ChannelNext /\ UNCHANGED <<mvars, svars, pvars, avars, lvars, ovars, zvars>>
       \/ focus = "sessions" /\ SessNext /\ UNCHANGED <<mvars, cvars, pvars, avars, lvars, ovars, zvars>>
       \/ focus = "reset" /\ ResetNext /\ ~(overlap' /\ pfaults' > 0) /\ UNCHANGED <<mvars, cvars, svars, avars, lvars, ovars, zvars>>
       \/ focus = "super" /\ SuperNext /\ UNCHANGED <<mvars, cvars, svars, pvars, lvars, ovars, zvars>>
       \/ focus = "limit" /\ LimitNext /\ UNCHANGED <<mvars, cvars, svars, pvars, avars, ovars, zvars>>
       \/ focus = "orgs" /\ OrgNext /\ UNCHANGED <<mvars, cvars, svars, pvars, avars, lvars, zvars>>
       \/ focus = "auth" /\ AuthNext /\ UNCHANGED <<mvars, cvars, svars, pvars, avars, lvars, ovars>>
    /\ UNCHANGED focus

MCSpec == MCInit /\ [][MCNext]_<<focus, mvars, cvars, svars, pvars, avars, lvars, ovars, zvars>>

\* The cfg gives every set of requests the same two names.
Symmetric == Permutations(SReqs) \cup Permutations(RoleKeys)
=============================================================================
