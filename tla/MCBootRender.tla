---------------------------- MODULE MCBootRender ----------------------------
(***************************************************************************)
(* One machine, two profiles and two images: a profile can be repointed    *)
(* and a default profile can differ from that of the deployment.  One site *)
(* with a mirror.                                                          *)
(***************************************************************************)
EXTENDS BootRender, TLC

CONSTANTS i1, i2, p1, p2, m1, b1, s1

TwoImages == {i1, i2}
TwoProfiles == {p1, p2}
OneMachine == {m1}
OneBoot == {b1}

OneSite == {s1}

\* Each way to deploy an image, a profile with a template and one without, and
\* a machine with and without a default profile.
MCStarts ==
    [image : {i1 :> a @@ i2 :> b : <<a, b>> \in {<<"golden", "installer">>, <<"installer", "golden">>,
                                                 <<"foreign", "windows">>}},
     profile : {p1 :> i1 @@ p2 :> i2},
     templates : {{p1}},
     machine : {m1 :> None, m1 :> p2},
     site : {m1 :> s1}]

=============================================================================
