------------------------------- MODULE MCSite --------------------------------
(***************************************************************************)
(* What the site keeps beside bookings: what hosts publish and customers   *)
(* report, who may act for a host, the content editors change, and the     *)
(* monolith's own accounts.  The parts share no document, so a behaviour   *)
(* plays one of them; an account's requests meet those of their own group, *)
(* and logins.                                                             *)
(***************************************************************************)
EXTENDS Hosting, Staff, TLC

CONSTANTS Slugs, Paths, Words, Editors, Tokens, Publishers, MaxEdits, MaxHops,
          MaxAttempts, MaxClaims, Absent, Here
VARIABLES document, ask, begun, event, claimed, sent, batch

C == INSTANCE Content

contentVars == <<document, ask, begun, event, claimed, sent, batch>>

CONSTANTS Passwords, Calls, Logins, MailTokens, Resets, Challenges, Enrolling, Recovery, Device,
          MaxTries, None
VARIABLES account, session, mail, reset, challenge, counter, device, pending, visits,
          over, taken, swept, rewound

L == INSTANCE LegacyAuth WITH Words <- Passwords, Visits <- Calls, Tokens <- MailTokens,
       MaxAttempts <- MaxTries, visit <- visits

ASSUME AccountsAssumption == L!LegacyAuthConstants
ASSUME ContentAssumption == C!ContentConstants

legacyVars == <<account, session, mail, reset, challenge, counter, device, pending, visits,
                over, taken, swept, rewound>>
siteVars == <<hostingVars, staffVars, contentVars>>

VARIABLE scene

FirstOwns == [b \in Branches |-> IF b = CHOOSE c \in Branches : TRUE
                                 THEN CHOOSE h \in Owners : \E g \in Owners \ {h} : TRUE
                                 ELSE CHOOSE h \in Owners : h # CHOOSE g \in Owners : TRUE]

Alike == Permutations(Files) \cup Permutations(Requests)

Plays(s) == scene = s /\ UNCHANGED scene

SceneInit ==
  /\ HostingInit /\ StaffInit /\ C!ContentInit /\ L!LegacyInit
  /\ scene \in {"pages", "pictures", "reviews", "host", "staff", "partners",
               "text", "redirect", "event", "join", "factor", "passkey", "end"}
  /\ scene \in {"factor", "passkey", "end"} <=> account # L!Nobody
  /\ scene = "end" => account.totp = "off" /\ counter = None

(* Bounds: the images of a behaviour are those of one page; four reports of *)
(* the review are saved.                                                   *)
OneGallery == Cardinality({h[1] : h \in hung'}) <= 1

HostingScene ==
  /\ \/ Plays("pages") /\ PageNext /\ OneGallery
     \/ Plays("pictures") /\ PictureNext
     \/ Plays("reviews") /\ ReviewNext /\ review'.version <= 4
     \/ Plays("host") /\ VerificationNext
  /\ UNCHANGED <<staffVars, contentVars, legacyVars>>

StaffScene ==
  /\ \/ Plays("staff") /\ (MemberNext \/ VisitNext)
     \/ Plays("partners") /\ (KeyNext \/ VisitNext)
  /\ UNCHANGED <<hostingVars, contentVars, legacyVars>>

(* Two events, so that publishers get in each other's way. *)
ContentScene ==
  /\ \/ Plays("text") /\ (C!PageNext \/ C!EndNext \/ C!CopyNext)
     \/ Plays("redirect") /\ (C!RedirectNext \/ C!EndNext)
     \/ Plays("event") /\ ((begun < 2 /\ C!WordNext) \/ C!EndNext \/ C!PublishNext)
  /\ UNCHANGED <<hostingVars, staffVars, legacyVars>>

AccountScene ==
  /\ \E v \in Calls :
       \/ Plays("join") /\ (L!Joining(v) \/ L!LoggingIn(v))
       \/ Plays("factor") /\ (L!TwoFactor(v) \/ L!LoggingIn(v))
       \/ Plays("passkey") /\ (L!Passkey(v) \/ L!LoggingIn(v))
       \/ Plays("end") /\ L!LoggingIn(v)
       \/ Plays("end") /\ L!Ending(v)
       \/ Plays("end") /\ v # 4 /\ L!Forgetting(v)
  /\ UNCHANGED siteVars

SceneNext == HostingScene \/ StaffScene \/ ContentScene \/ AccountScene

SceneSpec == SceneInit /\ [][SceneNext]_<<siteVars, legacyVars, scene>>

(* Restated over the parts of a behaviour; see Content and LegacyAuth. *)
EditsHold == C!EditsHold
EndedStaysEnded == L!EndedStaysEnded
=============================================================================
