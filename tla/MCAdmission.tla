----------------------------- MODULE MCAdmission -----------------------------
(* TLC instance of the admission layer, a library of parts that share no     *)
(* state but the clock: a behaviour works on the part named by focus.        *)
EXTENDS Admission, Auth, TLC

CONSTANTS ip, global, transports, producers, r1, padded, dash

VARIABLE focus

SomeWindow == (ip :> 2) @@ (global :> 3)
SomeMaximum == (ip :> 1) @@ (global :> 2)
SomeSlots == (transports :> 1) @@ (producers :> 2)
SomeTrim == (r1 :> r1) @@ (padded :> r1) @@ (dash :> dash)
SomeGrants == {{}, {"join"}, {"create", "join", "admin"}, {"moderate"}}
SomeTtls == {0, 1, 2, 3}

focusVars == <<admissionVars, authVars, focus>>

FocusInit == /\ AdmissionInit
             /\ AuthInit
             /\ focus \in {"quota", "peers", "auth"}

FocusNext ==
    /\ \/ focus = "quota" /\ QuotaNext /\ UNCHANGED authVars
       \/ focus = "peers" /\ PeerNext /\ UNCHANGED authVars
       \/ focus = "auth" /\ AuthNext /\ UNCHANGED admissionVars
    /\ UNCHANGED focus

FocusSpec == FocusInit /\ [][FocusNext]_focusVars
=============================================================================
