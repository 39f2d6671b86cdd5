---------------------------- MODULE MCHostStartup ------------------------------
EXTENDS HostStartup

All(low) == [low |-> low, high |-> Bit]

\* A processor with every feature, and the reserved bits the manual lists; the
\* TRUE MSRs free some.
MCDefault == [c \in Control |-> CASE c = "PIN" -> All({1, 2, 4})
                                  [] c = "CPU" -> All({1, 4, 5, 6, 8, 13, 14, 15, 16, 26})
                                  [] c = "SECONDARY" -> All({})
                                  [] c = "EXIT" -> All(0 .. 17 \ {9, 12, 15})
                                  [] c = "ENTRY" -> All(0 .. 12 \ {9, 10, 11})]
True == [MCDefault EXCEPT !["CPU"] = All({1, 4, 5, 6, 8, 13, 14, 26}),
                          !["EXIT"] = All(0 .. 17 \ {2, 9, 12, 15}),
                          !["ENTRY"] = All(0 .. 12 \ {2, 9, 10, 11})]
Usual == [cr0 |-> {0, 31}, cr4 |-> {5}, cr0_fixed0 |-> {0, 5, 31}, cr0_fixed1 |-> Bit \ {6},
          cr4_fixed0 |-> {13}, cr4_fixed1 |-> Bit \ {30}, smx |-> FALSE, feature_control |-> {0, 2},
          basic55 |-> TRUE, ctls |-> MCDefault, true_ctls |-> True]

\* Locked with each use of VMXON, and not locked, with SMX operation or without.
FeatureControl == {<<FALSE, {}>>, <<FALSE, {0}>>, <<FALSE, {0, 2}>>, <<TRUE, {}>>, <<TRUE, {2}>>,
                   <<TRUE, {0}>>, <<TRUE, {0, 1}>>, <<TRUE, {0, 2}>>, <<TRUE, {0, 1, 2}>>}

\* One feature missing at a time, and a bit that must be 0 and nobody wants.
Missing == {<<"CPU", {7}>>, <<"CPU", {28}>>, <<"CPU", {31}>>, <<"SECONDARY", {1}>>,
            <<"SECONDARY", {7}>>, <<"EXIT", {9}>>, <<"ENTRY", {9}>>, <<"PIN", {0}>>}
Lacking(ctls, m) == [ctls EXCEPT ![m[1]].high = @ \ m[2]]

MCProcessor ==
    {[Usual EXCEPT !.smx = f[1], !.feature_control = f[2], !.basic55 = b] :
       f \in FeatureControl, b \in BOOLEAN}
      \cup {[Usual EXCEPT !.ctls = Lacking(MCDefault, m), !.true_ctls = Lacking(True, m), !.basic55 = b] :
              m \in Missing, b \in BOOLEAN}
      \cup {[Usual EXCEPT !.cr0 = {0, 6, 31}, !.cr4 = {5, 30}]}

\* Nothing, one field that stays, and all the fields.
MCLeftover == {{}, Field} \cup {{f} : f \in EntryField \cup GuestField}

MCInsideSmxOnly == {[Usual EXCEPT !.smx = TRUE, !.feature_control = {0, 1}]}
===============================================================================
