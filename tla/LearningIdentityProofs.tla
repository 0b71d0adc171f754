------------------------ MODULE LearningIdentityProofs ------------------------
(***************************************************************************)
(* What holds of LearningIdentity for every set of clients, versions,      *)
(* attributes and pieces of evidence.  Commands do not overlap, so that    *)
(* the properties are nearly inductive: IInv adds only that evidence       *)
(* belongs to a version that exists.                                       *)
(***************************************************************************)
EXTENDS LearningIdentity, TLAPS

EvidenceHasVersion ==
    \A v \in Versions, a \in Attributes, s \in Slots :
        version[v].status = "none" => link[<<v, a, s>>] = NoLink

IInv == TypeOK /\ CurrentIsPublished /\ ReadIsTrue /\ OneOpenProfile /\ EvidenceHasVersion
-----------------------------------------------------------------------------
LEMMA NoLinkIsLink == NoLink \in Link /\ NewLink(TRUE) \in Link /\ NewLink(FALSE) \in Link
BY DEF NoLink, NewLink, Link, None

LEMMA InitIInv == Init => IInv
<1> SUFFICES ASSUME Init PROVE IInv
  OBVIOUS
<1>1. TypeOK
  <2>1. version \in [Versions -> Version]
    BY DEF Init, NoVersion, Version
  <2>2. link \in [Evidence -> Link]
    BY NoLinkIsLink DEF Init
  <2> QED BY <2>1, <2>2 DEF Init, TypeOK, ProfileStatuses
<1>2. CurrentIsPublished
  BY NamesAreDistinct DEF Init, CurrentIsPublished, Drafts, NoVersion, None
<1>3. ReadIsTrue /\ OneOpenProfile
  BY DEF Init, ReadIsTrue, UpToDate, OneOpenProfile
<1>4. EvidenceHasVersion
  BY DEF Init, EvidenceHasVersion, Evidence
<1> QED BY <1>1, <1>2, <1>3, <1>4 DEF IInv

\* What a client is given fits what it may hold.
LEMMA ProfileIsView ==
    ASSUME TypeOK PROVE Profile \in View
<1>1. Told \in [Attributes \X Slots -> Link]
  <2>1. CASE current = None
    BY <2>1, NoLinkIsLink DEF Told
  <2>2. CASE current # None
    <3>1. \A e \in Attributes \X Slots : link[<<current, e[1], e[2]>>] \in Link
      BY <2>2 DEF TypeOK, Evidence
    <3> QED BY <2>2, <3>1 DEF Told
  <2> QED BY <2>1, <2>2
<1> QED BY <1>1 DEF Profile, View, TypeOK

\* What is copied to a version is marked for that version.
LEMMA CopiedFits ==
    ASSUME TypeOK, NEW v \in Versions, NEW attributes \in SUBSET Attributes
    PROVE  Copied(v, attributes) \in SUBSET (Versions \X Attributes)
<1>1. {<<v, a>> : a \in {b \in attributes : <<current, b>> \in reviewRequired}} \subseteq Versions \X Attributes
  <2> SUFFICES ASSUME NEW a \in attributes PROVE <<v, a>> \in Versions \X Attributes
    OBVIOUS
  <2>1. a \in Attributes
    OBVIOUS
  <2> QED BY <2>1
<1> QED BY <1>1 DEF TypeOK, Copied

\* When the counter moves, nobody holds anything any more.
LEMMA CountsForgets ==
    ASSUME Counts
    PROVE  view' \in [Clients -> View \cup {Unread}] /\ ReadIsTrue'
BY DEF Counts, ReadIsTrue, UpToDate

\* What readers are told does not change with a version that is not current.
LEMMA SameProfile ==
    ASSUME UNCHANGED <<status, current, view>>, TypeOK, ReadIsTrue,
           current # None => \A a \in Attributes, s \in Slots :
                link'[<<current, a, s>>] = link[<<current, a, s>>]
    PROVE  view' \in [Clients -> View \cup {Unread}] /\ ReadIsTrue'
<1>1. Told' = Told
  BY DEF Told
<1>2. Profile' = Profile
  BY <1>1 DEF Profile
<1> QED BY <1>2 DEF TypeOK, ReadIsTrue, UpToDate

\* A publication leaves one version published, and an open profile alone.
LEMMA PublishingKeeps ==
    ASSUME TypeOK, CurrentIsPublished, OneOpenProfile,
           NEW v \in Versions, NEW attributes \in SUBSET Attributes,
           version[v].status # "published",
           \A w \in Drafts : w = v,
           Publishing(v, attributes), UNCHANGED other
    PROVE  /\ status' \in ProfileStatuses
           /\ current' \in Versions \cup {None}
           /\ version' \in [Versions -> Version]
           /\ CurrentIsPublished'
           /\ OneOpenProfile'
<1>1. status' \in ProfileStatuses
  BY DEF Publishing, Released, ProfileStatuses
<1>2. current' \in Versions \cup {None}
  BY DEF Publishing
<1>3. version' \in [Versions -> Version]
  <2>1. \A w \in Versions :
           /\ [status |-> "published", attributes |-> attributes] \in Version
           /\ [version[w] EXCEPT !.status = "superseded"] \in Version
           /\ version[w] \in Version
    BY DEF TypeOK, Version, NoVersion
  <2> QED BY <2>1 DEF Publishing
<1>4. \A w \in Versions : version'[w].status = "published" <=> w = v
  <2> SUFFICES ASSUME NEW w \in Versions
               PROVE  version'[w].status = "published" <=> w = v
    OBVIOUS
  <2>1. CASE w = v
    BY <2>1 DEF Publishing
  <2>2. CASE w # v /\ w = current
    BY <2>2 DEF Publishing, TypeOK, Version, NoVersion
  <2>3. CASE w # v /\ w # current
    BY <2>3 DEF Publishing, CurrentIsPublished
  <2> QED BY <2>1, <2>2, <2>3
<1>5. \A w \in Versions : version'[w].status # "draft"
  <2> SUFFICES ASSUME NEW w \in Versions PROVE version'[w].status # "draft"
    OBVIOUS
  <2>1. CASE w = v
    BY <2>1 DEF Publishing
  <2>2. CASE w # v /\ w = current
    BY <2>2 DEF Publishing, TypeOK, Version, NoVersion
  <2>3. CASE w # v /\ w # current
    BY <2>3 DEF Publishing, Drafts
  <2> QED BY <2>1, <2>2, <2>3
<1>6. CurrentIsPublished'
  BY <1>4, <1>5, NamesAreDistinct DEF CurrentIsPublished, Drafts, Publishing, None
<1>7. OneOpenProfile'
  BY DEF OneOpenProfile, Publishing, MayBeOpen
<1> QED BY <1>1, <1>2, <1>3, <1>6, <1>7

\* A review leaves a profile that is in use in use.
LEMMA ReviewKeeps ==
    ASSUME TypeOK, CurrentIsPublished, OneOpenProfile, NEW impact \in BOOLEAN,
           status' = Reviewed(impact), UNCHANGED <<current, other, version>>
    PROVE  status' \in ProfileStatuses /\ CurrentIsPublished' /\ OneOpenProfile'
BY DEF TypeOK, CurrentIsPublished, OneOpenProfile, Reviewed, ProfileStatuses, Drafts
-----------------------------------------------------------------------------
LEMMA ReadProfileKeeps ==
    ASSUME IInv, NEW c \in Clients, ReadProfile(c) PROVE IInv'
<1>1. view' \in [Clients -> View \cup {Unread}]
  BY ProfileIsView DEF IInv, TypeOK, ReadProfile
<1>2. Profile' = Profile
  BY DEF ReadProfile, Profile, Told
<1>3. ReadIsTrue'
  BY <1>2 DEF IInv, TypeOK, ReadIsTrue, ReadProfile, UpToDate
<1> QED BY <1>1, <1>3 DEF IInv, TypeOK, ReadProfile, CurrentIsPublished, Drafts, OneOpenProfile, EvidenceHasVersion

LEMMA CreateDraftKeeps ==
    ASSUME IInv, NEW c \in Clients, NEW v \in Versions, NEW copies \in BOOLEAN, CreateDraft(c, v, copies)
    PROVE  IInv'
<1> DEFINE attributes == IF copies THEN CurrentAttributes ELSE {}
<1>1. CurrentAttributes \in SUBSET Attributes
  BY DEF IInv, TypeOK, CurrentAttributes, Version, NoVersion
<1>2. version' \in [Versions -> Version]
  BY <1>1 DEF IInv, TypeOK, CreateDraft, Version, NoVersion
<1>3. v # current /\ version[v].status = "none"
  BY DEF IInv, CreateDraft, CurrentIsPublished, NoVersion
<1>4. CurrentIsPublished'
  BY <1>3 DEF IInv, TypeOK, CreateDraft, CurrentIsPublished, Drafts
<1>5. EvidenceHasVersion'
  BY <1>3 DEF IInv, TypeOK, CreateDraft, EvidenceHasVersion
<1>6. reviewRequired' \in SUBSET (Versions \X Attributes)
  BY <1>1, CopiedFits DEF IInv, TypeOK, CreateDraft
<1> QED BY <1>2, <1>4, <1>5, <1>6, CountsForgets DEF IInv, TypeOK, CreateDraft, OneOpenProfile

LEMMA AddDeclaredAttributeKeeps ==
    ASSUME IInv, NEW v \in Versions, NEW a \in Attributes, AddDeclaredAttribute(v, a) PROVE IInv'
<1>1. version' \in [Versions -> Version]
  BY DEF IInv, TypeOK, AddDeclaredAttribute, Version, NoVersion
<1>2. \A w \in Versions : version'[w].status = version[w].status
  BY DEF IInv, TypeOK, AddDeclaredAttribute, Version, NoVersion
<1>3. view' \in [Clients -> View \cup {Unread}] /\ ReadIsTrue'
  BY SameProfile DEF IInv, AddDeclaredAttribute
<1> QED BY <1>1, <1>2, <1>3 DEF IInv, TypeOK, AddDeclaredAttribute, CurrentIsPublished, Drafts, OneOpenProfile, EvidenceHasVersion

LEMMA PublishKeeps ==
    ASSUME IInv, NEW c \in Clients, NEW v \in Versions, Publish(c, v) PROVE IInv'
<1>1. version[v].attributes \in SUBSET Attributes
  BY DEF IInv, TypeOK, Version, NoVersion
<1>2. \A w \in Drafts : w = v
  BY DEF IInv, CurrentIsPublished, Publish, Drafts
<1>3. /\ status' \in ProfileStatuses /\ current' \in Versions \cup {None}
      /\ version' \in [Versions -> Version] /\ CurrentIsPublished' /\ OneOpenProfile'
  BY <1>1, <1>2, PublishingKeeps DEF IInv, Publish
<1>4. EvidenceHasVersion'
  <2>1. \A w \in Versions : version'[w].status = "none" => version[w].status = "none"
    BY DEF Publish, Publishing, IInv, TypeOK, Version, NoVersion
  <2> QED BY <2>1 DEF IInv, EvidenceHasVersion, Publish
<1> QED BY <1>3, <1>4, CountsForgets DEF IInv, TypeOK, Publish

LEMMA WithdrawDeclaredAttributeKeeps ==
    ASSUME IInv, NEW c \in Clients, NEW v \in Versions, NEW w \in Versions, NEW a \in Attributes,
           WithdrawDeclaredAttribute(c, v, w, a)
    PROVE  IInv'
<1> DEFINE attributes == IF w = current THEN CurrentAttributes \ {a} ELSE CurrentAttributes
<1>1. attributes \in SUBSET Attributes
  BY DEF IInv, TypeOK, CurrentAttributes, Version, NoVersion
<1>2. /\ version[v].status = "none" /\ Drafts = {} /\ Publishing(v, attributes) /\ Counts
      /\ reviewRequired' = Copied(v, attributes) /\ UNCHANGED <<other, link>>
  BY DEF WithdrawDeclaredAttribute, NoVersion
<1> HIDE DEF attributes
<1>3. /\ status' \in ProfileStatuses /\ current' \in Versions \cup {None}
      /\ version' \in [Versions -> Version] /\ CurrentIsPublished' /\ OneOpenProfile'
  BY <1>1, <1>2, PublishingKeeps DEF IInv
<1>4. EvidenceHasVersion'
  <2>1. \A x \in Versions : version'[x].status = "none" => version[x].status = "none"
    BY <1>2 DEF Publishing, IInv, TypeOK, Version, NoVersion
  <2> QED BY <1>2, <2>1 DEF IInv, EvidenceHasVersion
<1>5. reviewRequired' \in SUBSET (Versions \X Attributes)
  BY <1>1, <1>2, CopiedFits DEF IInv
<1> QED BY <1>2, <1>3, <1>4, <1>5, CountsForgets DEF IInv, TypeOK

LEMMA LinkEvidenceKeeps ==
    ASSUME IInv, NEW c \in Clients, NEW v \in Versions, NEW a \in Attributes, NEW s \in Slots,
           NEW contradicts \in BOOLEAN, LinkEvidence(c, v, a, s, contradicts)
    PROVE  IInv'
<1>1. link' \in [Evidence -> Link]
  BY DEF IInv, TypeOK, LinkEvidence, NewLink, Link, None
<1>2. status' \in ProfileStatuses /\ CurrentIsPublished' /\ OneOpenProfile'
  BY ReviewKeeps DEF IInv, LinkEvidence
<1>3. v # current
  BY DEF IInv, CurrentIsPublished, LinkEvidence
<1>4. view' \in [Clients -> View \cup {Unread}] /\ ReadIsTrue'
  <2>1. CASE contradicts /\ status = "needs_review"
    <3>1. UNCHANGED <<status, current, view>>
      BY <2>1 DEF LinkEvidence, Reviewed
    <3>2. \A b \in Attributes, t \in Slots : current # None => link'[<<current, b, t>>] = link[<<current, b, t>>]
      BY <1>3 DEF LinkEvidence, IInv, TypeOK, Evidence
    <3> QED BY <3>1, <3>2, SameProfile DEF IInv
  <2>2. CASE ~(contradicts /\ status = "needs_review")
    BY <2>2, CountsForgets DEF LinkEvidence
  <2> QED BY <2>1, <2>2
<1>5. EvidenceHasVersion'
  BY DEF IInv, EvidenceHasVersion, LinkEvidence, TypeOK, Evidence
<1> QED BY <1>1, <1>2, <1>4, <1>5 DEF IInv, TypeOK, LinkEvidence

LEMMA EndEvidenceKeeps ==
    ASSUME IInv, NEW c \in Clients, NEW v \in Versions, NEW a \in Attributes, NEW s \in Slots,
           NEW ending \in Endings, EndEvidence(c, v, a, s, ending)
    PROVE  IInv'
<1>0. <<v, a, s>> \in Evidence /\ link[<<v, a, s>>] \in Link
  BY DEF IInv, TypeOK, Evidence
<1>1. [link[<<v, a, s>>] EXCEPT !.status = ending] \in Link
  BY <1>0 DEF EndEvidence, Endings, Link, Terminal
<1>2. link' \in [Evidence -> Link]
  BY <1>0, <1>1 DEF IInv, TypeOK, EndEvidence
<1>3. status' \in ProfileStatuses /\ CurrentIsPublished' /\ OneOpenProfile'
  <2>1. (link[<<v, a, s>>].contradicts \/ ending # "stale") \in BOOLEAN
    OBVIOUS
  <2> QED BY <2>1, ReviewKeeps DEF IInv, EndEvidence
<1>4. EvidenceHasVersion'
  <2>1. version[v].status # "none"
    BY DEF IInv, EvidenceHasVersion, EndEvidence, Endings, NoLink
  <2> QED BY <2>1 DEF IInv, EvidenceHasVersion, EndEvidence, TypeOK, Evidence
<1> QED BY <1>2, <1>3, <1>4, CountsForgets DEF IInv, TypeOK, EndEvidence

LEMMA SupersedeEvidenceKeeps ==
    ASSUME IInv, NEW c \in Clients, NEW v \in Versions, NEW a \in Attributes, NEW s \in Slots,
           NEW successor \in Slots, SupersedeEvidence(c, v, a, s, successor)
    PROVE  IInv'
<1>0. <<v, a, s>> \in Evidence /\ link[<<v, a, s>>] \in Link
  BY DEF IInv, TypeOK, Evidence
<1>1. NewLink(link[<<v, a, s>>].contradicts) \in Link
  BY <1>0 DEF NewLink, Link, None
<1>2. [[link[<<v, a, s>>] EXCEPT !.status = "superseded"] EXCEPT !.successor = successor] \in Link
  BY <1>0 DEF SupersedeEvidence, Link
<1>3. s # successor
  BY <1>0 DEF SupersedeEvidence, NoLink
<1>4. link' \in [Evidence -> Link]
  BY <1>0, <1>1, <1>2, <1>3 DEF IInv, TypeOK, SupersedeEvidence, Evidence
<1>5. status' \in ProfileStatuses /\ CurrentIsPublished' /\ OneOpenProfile'
  <2>1. link[<<v, a, s>>].contradicts \in BOOLEAN
    BY <1>0 DEF Link
  <2> QED BY <2>1, ReviewKeeps DEF IInv, SupersedeEvidence
<1>6. EvidenceHasVersion'
  BY DEF IInv, EvidenceHasVersion, SupersedeEvidence, TypeOK, Evidence
<1> QED BY <1>4, <1>5, <1>6, CountsForgets DEF IInv, TypeOK, SupersedeEvidence

LEMMA ApplyOnboardingKeeps ==
    ASSUME IInv, NEW v \in Versions, NEW declared \in SUBSET Attributes, NEW cleared \in SUBSET Attributes,
           NEW s \in Slots, ApplyOnboarding(v, declared, cleared, s)
    PROVE  IInv'
<1> DEFINE stays      == CurrentAttributes \ (declared \cup cleared)
           attributes == stays \cup declared
<1>1. CurrentAttributes \in SUBSET Attributes /\ (current = None => CurrentAttributes = {})
  BY DEF IInv, TypeOK, CurrentAttributes, Version, NoVersion
<1>2. attributes \in SUBSET Attributes /\ (current = None => stays = {})
  BY <1>1
<1>3. /\ version[v].status = "none" /\ Drafts = {}
      /\ link' = CarriedOver(v, stays, declared, s) /\ reviewRequired' = Copied(v, stays)
      /\ Counts /\ UNCHANGED other
      /\ \/ /\ version' = [version EXCEPT ![v] = [status |-> "draft", attributes |-> attributes]]
            /\ UNCHANGED <<status, current>>
         \/ Publishing(v, attributes)
  BY DEF ApplyOnboarding, NoVersion
<1>4. link' \in [Evidence -> Link]
  <2>1. \A e \in Evidence : e[2] \in stays =>
           [link[<<current, e[2], e[3]>>] EXCEPT !.successor = None] \in Link
    <3> SUFFICES ASSUME NEW e \in Evidence, e[2] \in stays
                 PROVE  [link[<<current, e[2], e[3]>>] EXCEPT !.successor = None] \in Link
      OBVIOUS
    <3>1. link[<<current, e[2], e[3]>>] \in Link
      BY <1>2 DEF IInv, TypeOK, Evidence
    <3> QED BY <3>1 DEF Link, Terminal
  <2>2. \A e \in Evidence : link[e] \in Link
    BY DEF IInv, TypeOK
  <2> HIDE DEF stays
  <2> QED BY <1>3, <2>1, <2>2, NoLinkIsLink DEF CarriedOver
<1>5. \A x \in Versions : version'[x].status = "none" => version[x].status = "none" /\ x # v
  BY <1>3 DEF Publishing, IInv, TypeOK, Version, NoVersion
<1>6. EvidenceHasVersion'
  <2> SUFFICES ASSUME NEW x \in Versions, NEW b \in Attributes, NEW t \in Slots, version'[x].status = "none"
               PROVE  link'[<<x, b, t>>] = NoLink
    BY DEF EvidenceHasVersion
  <2>1. link'[<<x, b, t>>] = link[<<x, b, t>>]
    BY <1>3, <1>5 DEF CarriedOver, Evidence
  <2> QED BY <1>5, <2>1 DEF IInv, EvidenceHasVersion
<1> HIDE DEF stays, attributes
<1>7. /\ status' \in ProfileStatuses /\ current' \in Versions \cup {None}
      /\ version' \in [Versions -> Version] /\ CurrentIsPublished' /\ OneOpenProfile'
  <2>1. CASE version' = [version EXCEPT ![v] = [status |-> "draft", attributes |-> attributes]]
             /\ UNCHANGED <<status, current>>
    <3>1. version' \in [Versions -> Version]
      BY <1>2, <2>1 DEF IInv, TypeOK, Version, NoVersion
    <3>2. CurrentIsPublished'
      BY <1>3, <2>1 DEF IInv, TypeOK, CurrentIsPublished, Drafts
    <3> QED BY <1>3, <2>1, <3>1, <3>2 DEF IInv, TypeOK, OneOpenProfile
  <2>2. CASE Publishing(v, attributes)
    BY <1>2, <1>3, <2>2, PublishingKeeps DEF IInv
  <2> QED BY <1>3, <2>1, <2>2
<1>8. reviewRequired' \in SUBSET (Versions \X Attributes)
  <2>1. stays \in SUBSET Attributes
    BY <1>1 DEF stays
  <2> QED BY <1>3, <2>1, CopiedFits DEF IInv
<1> QED BY <1>3, <1>4, <1>6, <1>7, <1>8, CountsForgets DEF IInv, TypeOK

LEMMA ProfileCommandsKeep ==
    ASSUME IInv, NEW c \in Clients, Restrict(c) \/ Archive(c) \/ ChangePreference(c)
    PROVE  IInv'
<1>1. Counts /\ UNCHANGED <<current, other, version, link, reviewRequired>> /\ status' \in {status, "restricted", "archived"}
      /\ (status = "archived" => status' = "archived")
  BY DEF Restrict, Archive, ChangePreference
<1>2. status' \in ProfileStatuses /\ CurrentIsPublished' /\ OneOpenProfile' /\ EvidenceHasVersion'
  BY <1>1 DEF IInv, TypeOK, ProfileStatuses, CurrentIsPublished, Drafts, OneOpenProfile, EvidenceHasVersion
<1> QED BY <1>1, <1>2, CountsForgets DEF IInv, TypeOK

LEMMA AnotherKeeps ==
    ASSUME IInv, OpenAnother \/ ArchiveAnother PROVE IInv'
<1>1. /\ UNCHANGED <<status, current, version, link, reviewRequired, view>>
      /\ other' \in BOOLEAN /\ (other' => status = "archived")
  BY DEF OpenAnother, ArchiveAnother
<1>2. ReadIsTrue' /\ view' \in [Clients -> View \cup {Unread}]
  BY <1>1, SameProfile DEF IInv
<1> QED BY <1>1, <1>2 DEF IInv, TypeOK, CurrentIsPublished, Drafts, OneOpenProfile, EvidenceHasVersion

\* The invariant is inductive.
LEMMA NextKeepsIInv == IInv /\ [Next]_vars => IInv'
<1> SUFFICES ASSUME IInv, [Next]_vars PROVE IInv'
  OBVIOUS
<1>1. ASSUME NEW c \in Clients, ReadProfile(c) PROVE IInv'
  BY <1>1, ReadProfileKeeps
<1>2. ASSUME NEW c \in Clients, Restrict(c) \/ Archive(c) \/ ChangePreference(c) PROVE IInv'
  BY <1>2, ProfileCommandsKeep
<1>3. ASSUME NEW c \in Clients, NEW v \in Versions, NEW copies \in BOOLEAN, CreateDraft(c, v, copies) PROVE IInv'
  BY <1>3, CreateDraftKeeps
<1>4. ASSUME NEW c \in Clients, NEW v \in Versions, Publish(c, v) PROVE IInv'
  BY <1>4, PublishKeeps
<1>5. ASSUME NEW c \in Clients, NEW v \in Versions, NEW w \in Versions, NEW a \in Attributes,
             WithdrawDeclaredAttribute(c, v, w, a)
      PROVE  IInv'
  BY <1>5, WithdrawDeclaredAttributeKeeps
<1>6. ASSUME NEW c \in Clients, NEW v \in Versions, NEW a \in Attributes, NEW s \in Slots, EvidenceStep(c, v, a, s)
      PROVE  IInv'
  BY <1>6, LinkEvidenceKeeps, EndEvidenceKeeps, SupersedeEvidenceKeeps DEF EvidenceStep
<1>7. ASSUME NEW v \in Versions, NEW a \in Attributes, AddDeclaredAttribute(v, a) PROVE IInv'
  BY <1>7, AddDeclaredAttributeKeeps
<1>8. ASSUME NEW v \in Versions, NEW declared \in SUBSET Attributes, NEW cleared \in SUBSET Attributes,
             NEW s \in Slots, ApplyOnboarding(v, declared, cleared, s)
      PROVE  IInv'
  BY <1>8, ApplyOnboardingKeeps
<1>9. CASE OpenAnother \/ ArchiveAnother
  BY <1>9, AnotherKeeps
<1>10. CASE UNCHANGED vars
  <2>1. ReadIsTrue' /\ view' \in [Clients -> View \cup {Unread}]
    BY <1>10, SameProfile DEF IInv, vars
  <2> QED BY <1>10, <2>1 DEF IInv, TypeOK, CurrentIsPublished, Drafts, OneOpenProfile, EvidenceHasVersion, vars
<1> QED BY <1>1, <1>2, <1>3, <1>4, <1>5, <1>6, <1>7, <1>8, <1>9, <1>10 DEF Next

LEMMA Invariance == Spec => []IInv
BY InitIInv, NextKeepsIInv, PTL DEF Spec
-----------------------------------------------------------------------------
(* Theorems *)

\* Every variable keeps its type: only superseded evidence names a successor.
THEOREM TypeCorrect == Spec => []TypeOK
<1>1. IInv => TypeOK
  BY DEF IInv
<1> QED BY <1>1, Invariance, PTL

\* Whatever is published, withdrawn or brought by onboarding, the current version
\* is the published one and at most one draft is beside it (CurrentIsPublished).
THEOREM CurrentVersion == Spec => []CurrentIsPublished
<1>1. IInv => CurrentIsPublished
  BY DEF IInv
<1> QED BY <1>1, Invariance, PTL

\* The commands that do not count change nothing that a reader was told, so that
\* the expected version protects whoever sends it (ReadIsTrue).
THEOREM OptimisticLock == Spec => []ReadIsTrue
<1>1. IInv => ReadIsTrue
  BY DEF IInv
<1> QED BY <1>1, Invariance, PTL

\* An archived profile that a publication opens again is the only open one
\* (OneOpenProfile).
THEOREM OnlyOpenProfile == Spec => []OneOpenProfile
<1>1. IInv => OneOpenProfile
  BY DEF IInv
<1> QED BY <1>1, Invariance, PTL

\* No command but the archive's takes a restriction away (RestrictionHolds).
THEOREM RestrictionIsKept == Spec => RestrictionHolds
<1>1. [Next]_vars => [status = "restricted" => status' \in {"restricted", "archived"}]_vars
  <2> SUFFICES ASSUME Next, status = "restricted" PROVE status' \in {"restricted", "archived"}
    OBVIOUS
  <2>1. \A impact : Reviewed(impact) = "restricted"
    BY DEF Reviewed
  <2>2. Released = "restricted"
    BY DEF Released
  <2> DEFINE Goal == status' \in {"restricted", "archived"}
  <2>3. ASSUME NEW c \in Clients, ReadProfile(c) \/ Restrict(c) \/ Archive(c) \/ ChangePreference(c) PROVE Goal
    BY <2>3 DEF ReadProfile, Restrict, Archive, ChangePreference
  <2>4. ASSUME NEW c \in Clients, NEW v \in Versions, NEW copies \in BOOLEAN, CreateDraft(c, v, copies) PROVE Goal
    BY <2>4 DEF CreateDraft
  <2>5. ASSUME NEW c \in Clients, NEW v \in Versions, Publish(c, v) PROVE Goal
    BY <2>2, <2>5 DEF Publish, Publishing
  <2>6. ASSUME NEW c \in Clients, NEW v \in Versions, NEW w \in Versions, NEW a \in Attributes,
               WithdrawDeclaredAttribute(c, v, w, a)
        PROVE  Goal
    BY <2>2, <2>6 DEF WithdrawDeclaredAttribute, Publishing
  <2>7. ASSUME NEW c \in Clients, NEW v \in Versions, NEW a \in Attributes, NEW s \in Slots, EvidenceStep(c, v, a, s)
        PROVE  Goal
    BY <2>1, <2>7 DEF EvidenceStep, LinkEvidence, EndEvidence, SupersedeEvidence
  <2>8. ASSUME NEW v \in Versions, NEW a \in Attributes, AddDeclaredAttribute(v, a) PROVE Goal
    BY <2>8 DEF AddDeclaredAttribute
  <2>9. ASSUME NEW v \in Versions, NEW declared \in SUBSET Attributes, NEW cleared \in SUBSET Attributes,
               NEW s \in Slots, ApplyOnboarding(v, declared, cleared, s)
        PROVE  Goal
    BY <2>2, <2>9 DEF ApplyOnboarding, Publishing
  <2>10. CASE OpenAnother \/ ArchiveAnother
    BY <2>10 DEF OpenAnother, ArchiveAnother
  <2> HIDE DEF Goal
  <2> QED BY <2>3, <2>4, <2>5, <2>6, <2>7, <2>8, <2>9, <2>10 DEF Next, Goal
<1> QED BY <1>1, PTL DEF Spec, RestrictionHolds

\* What one step does to a version: only a draft changes or is published, and
\* only the current version is superseded.
LEMMA VersionSteps ==
    ASSUME IInv, Next, NEW v \in Versions
    PROVE  \/ version'[v] = version[v]
           \/ version[v].status = "none"
           \/ version[v].status = "draft"
           \/ version'[v] = [version[v] EXCEPT !.status = "superseded"]
<1> DEFINE Goal == \/ version'[v] = version[v] \/ version[v].status = "none" \/ version[v].status = "draft"
                   \/ version'[v] = [version[v] EXCEPT !.status = "superseded"]
<1> SUFFICES Goal
  OBVIOUS
<1>1. ASSUME NEW w \in Versions, NEW attributes, Publishing(w, attributes), version[w].status \in {"none", "draft"}
      PROVE  Goal
  BY <1>1 DEF Publishing
<1>2. ASSUME NEW c \in Clients, NEW w \in Versions, NEW copies \in BOOLEAN, CreateDraft(c, w, copies) PROVE Goal
  BY <1>2 DEF CreateDraft, IInv, TypeOK, NoVersion
<1>3. ASSUME NEW w \in Versions, NEW a \in Attributes, AddDeclaredAttribute(w, a) PROVE Goal
  BY <1>3 DEF AddDeclaredAttribute, IInv, TypeOK
<1>4. ASSUME NEW c \in Clients, NEW w \in Versions, Publish(c, w) PROVE Goal
  BY <1>1, <1>4 DEF Publish
<1>5. ASSUME NEW c \in Clients, NEW w \in Versions, NEW x \in Versions, NEW a \in Attributes,
             WithdrawDeclaredAttribute(c, w, x, a)
      PROVE  Goal
  BY <1>1, <1>5 DEF WithdrawDeclaredAttribute, NoVersion
<1>6. ASSUME NEW w \in Versions, NEW declared \in SUBSET Attributes, NEW cleared \in SUBSET Attributes,
             NEW s \in Slots, ApplyOnboarding(w, declared, cleared, s)
      PROVE  Goal
  <2>1. version[w].status = "none" /\ version[w] = NoVersion
    BY <1>6 DEF ApplyOnboarding, NoVersion
  <2> DEFINE attributes == (CurrentAttributes \ (declared \cup cleared)) \cup declared
  <2>2. CASE version' = [version EXCEPT ![w] = [status |-> "draft", attributes |-> attributes]]
    BY <2>1, <2>2 DEF IInv, TypeOK
  <2>3. CASE Publishing(w, attributes)
    BY <1>1, <2>1, <2>3
  <2> QED BY <1>6, <2>2, <2>3 DEF ApplyOnboarding
<1>7. ASSUME NEW c \in Clients, ReadProfile(c) \/ Restrict(c) \/ Archive(c) \/ ChangePreference(c) PROVE Goal
  BY <1>7 DEF ReadProfile, Restrict, Archive, ChangePreference
<1>8. ASSUME NEW c \in Clients, NEW w \in Versions, NEW a \in Attributes, NEW s \in Slots, EvidenceStep(c, w, a, s)
      PROVE  Goal
  BY <1>8 DEF EvidenceStep, LinkEvidence, EndEvidence, SupersedeEvidence
<1>9. CASE OpenAnother \/ ArchiveAnother
  BY <1>9 DEF OpenAnother, ArchiveAnother
<1> HIDE DEF Goal
<1> QED BY <1>2, <1>3, <1>4, <1>5, <1>6, <1>7, <1>8, <1>9 DEF Next

\* Evidence changes in four of the actions.
LEMMA LinkSteps ==
    ASSUME Next
    PROVE  \/ UNCHANGED link
           \/ \E c \in Clients, v \in Versions, a \in Attributes, s \in Slots :
                \/ \E contradicts \in BOOLEAN : LinkEvidence(c, v, a, s, contradicts)
                \/ \E ending \in Endings : EndEvidence(c, v, a, s, ending)
                \/ \E successor \in Slots : SupersedeEvidence(c, v, a, s, successor)
           \/ \E v \in Versions, declared, cleared \in SUBSET Attributes, s \in Slots :
                ApplyOnboarding(v, declared, cleared, s)
<1>1. ASSUME NEW c \in Clients, ReadProfile(c) \/ Restrict(c) \/ Archive(c) \/ ChangePreference(c) PROVE UNCHANGED link
  BY <1>1 DEF ReadProfile, Restrict, Archive, ChangePreference
<1>2. ASSUME NEW c \in Clients, NEW v \in Versions, NEW copies \in BOOLEAN, CreateDraft(c, v, copies) PROVE UNCHANGED link
  BY <1>2 DEF CreateDraft
<1>3. ASSUME NEW c \in Clients, NEW v \in Versions, Publish(c, v) PROVE UNCHANGED link
  BY <1>3 DEF Publish
<1>4. ASSUME NEW c \in Clients, NEW v \in Versions, NEW w \in Versions, NEW a \in Attributes,
             WithdrawDeclaredAttribute(c, v, w, a)
      PROVE  UNCHANGED link
  BY <1>4 DEF WithdrawDeclaredAttribute
<1>5. ASSUME NEW v \in Versions, NEW a \in Attributes, AddDeclaredAttribute(v, a) PROVE UNCHANGED link
  BY <1>5 DEF AddDeclaredAttribute
<1>6. ASSUME OpenAnother \/ ArchiveAnother PROVE UNCHANGED link
  BY <1>6 DEF OpenAnother, ArchiveAnother
<1> QED BY <1>1, <1>2, <1>3, <1>4, <1>5, <1>6 DEF Next, EvidenceStep

\* What one step does to a piece of evidence of a version that exists: it is
\* linked for a draft, or ends, and the profile is reviewed accordingly.
LEMMA EvidenceSteps ==
    ASSUME IInv, Next, NEW e \in Evidence, version[e[1]].status # "none"
    PROVE  \/ link'[e] = link[e]
           \/ /\ link[e] = NoLink /\ version[e[1]].status = "draft"
              /\ \E contradicts \in BOOLEAN :
                    link'[e] = NewLink(contradicts) /\ status' = Reviewed(contradicts)
           \/ /\ link[e].status \in {"active", "stale"}
              /\ \E ending \in Endings :
                    /\ link'[e] = [link[e] EXCEPT !.status = ending]
                    /\ status' = Reviewed(link[e].contradicts \/ ending # "stale")
           \/ /\ link[e].status \in {"active", "stale"}
              /\ link'[e].status = "superseded" /\ link'[e].contradicts = link[e].contradicts
<1> DEFINE Goal == \/ link'[e] = link[e]
                   \/ /\ link[e] = NoLink /\ version[e[1]].status = "draft"
                      /\ \E contradicts \in BOOLEAN :
                            link'[e] = NewLink(contradicts) /\ status' = Reviewed(contradicts)
                   \/ /\ link[e].status \in {"active", "stale"}
                      /\ \E ending \in Endings :
                            /\ link'[e] = [link[e] EXCEPT !.status = ending]
                            /\ status' = Reviewed(link[e].contradicts \/ ending # "stale")
                   \/ /\ link[e].status \in {"active", "stale"}
                      /\ link'[e].status = "superseded" /\ link'[e].contradicts = link[e].contradicts
<1> SUFFICES Goal
  OBVIOUS
<1>0. link \in [Evidence -> Link] /\ link[e] \in Link
  BY DEF IInv, TypeOK
<1>1. ASSUME NEW c \in Clients, NEW v \in Versions, NEW a \in Attributes, NEW s \in Slots,
             NEW contradicts \in BOOLEAN, LinkEvidence(c, v, a, s, contradicts)
      PROVE  Goal
  <2>1. CASE e = <<v, a, s>>
    <3>1. link[e] = NoLink /\ version[e[1]].status = "draft"
      BY <1>1, <2>1 DEF LinkEvidence
    <3>2. link'[e] = NewLink(contradicts) /\ status' = Reviewed(contradicts)
      BY <1>0, <1>1, <2>1 DEF LinkEvidence
    <3> QED BY <3>1, <3>2
  <2>2. CASE e # <<v, a, s>>
    BY <1>0, <1>1, <2>2 DEF LinkEvidence
  <2> QED BY <2>1, <2>2
<1>2. ASSUME NEW c \in Clients, NEW v \in Versions, NEW a \in Attributes, NEW s \in Slots,
             NEW ending \in Endings, EndEvidence(c, v, a, s, ending)
      PROVE  Goal
  <2>1. CASE e = <<v, a, s>>
    <3>1. link'[e] = [link[e] EXCEPT !.status = ending] /\ status' = Reviewed(link[e].contradicts \/ ending # "stale")
      BY <1>0, <1>2, <2>1 DEF EndEvidence
    <3>2. CASE link[e].status = ending
      <4>1. link'[e] = link[e]
        BY <1>0, <3>1, <3>2 DEF Link
      <4> QED BY <4>1
    <3>3. CASE link[e].status # ending
      BY <1>2, <2>1, <3>1, <3>3 DEF EndEvidence
    <3> QED BY <3>2, <3>3
  <2>2. CASE e # <<v, a, s>>
    BY <1>0, <1>2, <2>2 DEF EndEvidence
  <2> QED BY <2>1, <2>2
<1>3. ASSUME NEW c \in Clients, NEW v \in Versions, NEW a \in Attributes, NEW s \in Slots,
             NEW successor \in Slots, SupersedeEvidence(c, v, a, s, successor)
      PROVE  Goal
  <2>0. <<v, a, s>> \in Evidence /\ <<v, a, successor>> \in Evidence /\ s # successor
    BY <1>3 DEF SupersedeEvidence, Evidence, NoLink
  <2>1. CASE e = <<v, a, s>>
    BY <1>0, <1>3, <2>0, <2>1 DEF SupersedeEvidence, Link
  <2>2. CASE e = <<v, a, successor>>
    <3>1. link[e] = NoLink /\ version[e[1]].status = "draft"
      BY <1>3, <2>2 DEF SupersedeEvidence
    <3>2. link'[e] = NewLink(link[<<v, a, s>>].contradicts) /\ status' = Reviewed(link[<<v, a, s>>].contradicts)
      BY <1>0, <1>3, <2>0, <2>2 DEF SupersedeEvidence
    <3>3. link[<<v, a, s>>].contradicts \in BOOLEAN
      BY <1>0, <2>0 DEF Link
    <3> QED BY <3>1, <3>2, <3>3
  <2>3. CASE e # <<v, a, s>> /\ e # <<v, a, successor>>
    BY <1>0, <1>3, <2>3 DEF SupersedeEvidence
  <2> QED BY <2>1, <2>2, <2>3
<1>4. ASSUME NEW v \in Versions, NEW declared \in SUBSET Attributes, NEW cleared \in SUBSET Attributes,
             NEW s \in Slots, ApplyOnboarding(v, declared, cleared, s)
      PROVE  Goal
  <2>1. e[1] # v
    BY <1>4 DEF ApplyOnboarding, NoVersion
  <2> QED BY <1>4, <2>1 DEF ApplyOnboarding, CarriedOver
<1>5. CASE UNCHANGED link
  BY <1>5
<1> HIDE DEF Goal
<1> QED BY <1>1, <1>2, <1>3, <1>4, <1>5, LinkSteps

\* Attributes and evidence come to drafts only, through every command and
\* through onboarding, which writes another version than the one it copies
\* (HistoryIsFrozen).
THEOREM PublishedIsHistory == Spec => HistoryIsFrozen
<1> DEFINE Frozen ==
      \A v \in Versions : version[v].status \in {"published", "superseded"} =>
        /\ version'[v].attributes = version[v].attributes
        /\ version'[v].status \in {version[v].status, "superseded"}
        /\ \A a \in Attributes, s \in Slots :
            link[<<v, a, s>>] = NoLink => link'[<<v, a, s>>] = NoLink
<1>1. IInv /\ [Next]_vars => [Frozen]_vars
  <2> SUFFICES ASSUME IInv, Next, NEW v \in Versions, version[v].status \in {"published", "superseded"}
               PROVE  /\ version'[v].attributes = version[v].attributes
                      /\ version'[v].status \in {version[v].status, "superseded"}
                      /\ \A a \in Attributes, s \in Slots :
                           link[<<v, a, s>>] = NoLink => link'[<<v, a, s>>] = NoLink
    OBVIOUS
  <2>1. version[v] \in Version
    BY DEF IInv, TypeOK
  <2>2. \A a \in Attributes, s \in Slots : link[<<v, a, s>>] = NoLink => link'[<<v, a, s>>] = NoLink
    <3> SUFFICES ASSUME NEW a \in Attributes, NEW s \in Slots, link[<<v, a, s>>] = NoLink
                 PROVE  link'[<<v, a, s>>] = NoLink
      OBVIOUS
    <3>1. <<v, a, s>> \in Evidence /\ <<v, a, s>>[1] = v
      BY DEF Evidence
    <3> QED BY <3>1, EvidenceSteps DEF NoLink
  <2> QED BY <2>1, <2>2, VersionSteps DEF Version, NoVersion
<1> QED BY <1>1, Invariance, PTL DEF Spec, HistoryIsFrozen

\* Evidence that ended in one way does not end in another, nor come back
\* (TerminalIsFinal).
THEOREM EndedEvidenceIsFinal == Spec => TerminalIsFinal
<1>1. IInv /\ [Next]_vars => [\A e \in Evidence : link[e].status \in Terminal => link'[e] = link[e]]_vars
  <2> SUFFICES ASSUME IInv, Next, NEW e \in Evidence, link[e].status \in Terminal PROVE link'[e] = link[e]
    OBVIOUS
  <2>1. link[e].status \notin {"none", "active", "stale"} /\ link[e] # NoLink
    BY DEF Terminal, NoLink
  <2>2. version[e[1]].status # "none"
    <3>1. PICK v \in Versions, a \in Attributes, s \in Slots : e = <<v, a, s>>
      BY DEF Evidence
    <3> QED BY <2>1, <3>1 DEF IInv, EvidenceHasVersion
  <2> QED BY <2>1, <2>2, EvidenceSteps
<1> QED BY <1>1, Invariance, PTL DEF Spec, TerminalIsFinal

\* Every way in which evidence becomes disputed takes the profile out of ACTIVE,
\* in the same transaction (ImpactReachesProfile).
THEOREM DisputesAreReviewed == Spec => ImpactReachesProfile
<1> DEFINE Reaches ==
      \A e \in Evidence :
        version[e[1]] # NoVersion /\ ~Disputes(link[e]) /\ Disputes(link'[e]) => status' # "active"
<1>1. IInv /\ [Next]_vars => [Reaches]_vars
  <2> SUFFICES ASSUME IInv, Next, NEW e \in Evidence,
                      version[e[1]] # NoVersion, ~Disputes(link[e]), Disputes(link'[e])
               PROVE  status' # "active"
    OBVIOUS
  <2>1. version[e[1]].status # "none"
    BY DEF IInv, TypeOK, Evidence, Version, NoVersion
  <2>3. link[e].status # "none" => ~link[e].contradicts
    BY DEF Disputes
  <2>4. link[e] \in Link /\ link'[e] # link[e]
    BY DEF IInv, TypeOK
  <2>5. ASSUME NEW contradicts \in BOOLEAN, link'[e] = NewLink(contradicts), status' = Reviewed(contradicts)
        PROVE  status' # "active"
    BY <2>5 DEF Disputes, NewLink, Reviewed
  <2>6. ASSUME NEW ending \in Endings, link[e].status \in {"active", "stale"},
               link'[e] = [link[e] EXCEPT !.status = ending],
               status' = Reviewed(link[e].contradicts \/ ending # "stale")
        PROVE  status' # "active"
    <3>1. link'[e].status = ending /\ link'[e].contradicts = link[e].contradicts
      BY <2>4, <2>6 DEF Link
    <3>2. ending # "stale"
      BY <2>3, <2>6, <3>1 DEF Disputes
    <3> QED BY <2>6, <3>2 DEF Reviewed
  <2>7. ~(link[e].status \in {"active", "stale"} /\ link'[e].status = "superseded"
          /\ link'[e].contradicts = link[e].contradicts)
    BY <2>3 DEF Disputes
  <2> QED BY <2>1, <2>4, <2>5, <2>6, <2>7, EvidenceSteps
<1> QED BY <1>1, Invariance, PTL DEF Spec, ImpactReachesProfile

\* No action takes a mark away.
LEMMA MarksStay ==
    ASSUME Next PROVE reviewRequired \subseteq reviewRequired'
<1> DEFINE Goal == reviewRequired \subseteq reviewRequired'
<1> SUFFICES Goal
  OBVIOUS
<1>1. ASSUME NEW c \in Clients, ReadProfile(c) \/ Restrict(c) \/ Archive(c) \/ ChangePreference(c) PROVE Goal
  BY <1>1 DEF ReadProfile, Restrict, Archive, ChangePreference
<1>2. ASSUME NEW c \in Clients, NEW v \in Versions, NEW copies \in BOOLEAN, CreateDraft(c, v, copies) PROVE Goal
  BY <1>2 DEF CreateDraft, Copied
<1>3. ASSUME NEW c \in Clients, NEW v \in Versions, Publish(c, v) PROVE Goal
  BY <1>3 DEF Publish
<1>4. ASSUME NEW c \in Clients, NEW v \in Versions, NEW w \in Versions, NEW a \in Attributes,
             WithdrawDeclaredAttribute(c, v, w, a)
      PROVE  Goal
  BY <1>4 DEF WithdrawDeclaredAttribute, Copied
<1>5. ASSUME NEW v \in Versions, NEW a \in Attributes, AddDeclaredAttribute(v, a) PROVE Goal
  BY <1>5 DEF AddDeclaredAttribute
<1>6. ASSUME NEW c \in Clients, NEW v \in Versions, NEW a \in Attributes, NEW s \in Slots, EvidenceStep(c, v, a, s)
      PROVE  Goal
  BY <1>6 DEF EvidenceStep, LinkEvidence, EndEvidence, SupersedeEvidence
<1>7. ASSUME NEW v \in Versions, NEW declared \in SUBSET Attributes, NEW cleared \in SUBSET Attributes,
             NEW s \in Slots, ApplyOnboarding(v, declared, cleared, s)
      PROVE  Goal
  BY <1>7 DEF ApplyOnboarding, Copied
<1>8. CASE OpenAnother \/ ArchiveAnother
  BY <1>8 DEF OpenAnother, ArchiveAnother
<1> HIDE DEF Goal
<1> QED BY <1>1, <1>2, <1>3, <1>4, <1>5, <1>6, <1>7, <1>8 DEF Next

\* Evidence becomes a reason for review together with its attribute's mark, and
\* wherever onboarding carries it over, the mark goes along (QuestionedIsMarked).
THEOREM MarksFollowEvidence == Spec => []QuestionedIsMarked
<1>1. Init => QuestionedIsMarked
  BY DEF Init, QuestionedIsMarked, CallsForReview, NoLink, Evidence
<1>2. IInv /\ QuestionedIsMarked /\ [Next]_vars => QuestionedIsMarked'
  <2> SUFFICES ASSUME IInv, QuestionedIsMarked, [Next]_vars,
                      NEW x \in Versions, NEW b \in Attributes, NEW t \in Slots,
                      CallsForReview(link'[<<x, b, t>>])
               PROVE  <<x, b>> \in reviewRequired'
    BY DEF QuestionedIsMarked
  <2> DEFINE Goal == <<x, b>> \in reviewRequired'
  <2>0. <<x, b, t>> \in Evidence /\ link \in [Evidence -> Link] /\ link[<<x, b, t>>] \in Link
    BY DEF IInv, TypeOK, Evidence
  <2>1. ASSUME link'[<<x, b, t>>] = link[<<x, b, t>>] PROVE Goal
    <3>1. <<x, b>> \in reviewRequired
      BY <2>1 DEF QuestionedIsMarked
    <3>2. CASE UNCHANGED vars
      BY <3>1, <3>2 DEF vars
    <3>3. CASE Next
      BY <3>1, <3>3, MarksStay
    <3> QED BY <3>2, <3>3
  <2>2. ASSUME NEW c \in Clients, NEW v \in Versions, NEW a \in Attributes, NEW s \in Slots,
               NEW contradicts \in BOOLEAN, LinkEvidence(c, v, a, s, contradicts)
        PROVE  Goal
    <3>1. CASE <<x, b, t>> # <<v, a, s>>
      BY <2>0, <2>1, <2>2, <3>1 DEF LinkEvidence
    <3>2. CASE <<x, b, t>> = <<v, a, s>>
      <4>1. link'[<<x, b, t>>] = NewLink(contradicts)
        BY <2>0, <2>2, <3>2 DEF LinkEvidence
      <4>2. contradicts
        BY <4>1 DEF CallsForReview, NewLink
      <4> QED BY <2>2, <3>2, <4>2 DEF LinkEvidence
    <3> QED BY <3>1, <3>2
  <2>3. ASSUME NEW c \in Clients, NEW v \in Versions, NEW a \in Attributes, NEW s \in Slots,
               NEW ending \in Endings, EndEvidence(c, v, a, s, ending)
        PROVE  Goal
    <3>1. CASE <<x, b, t>> # <<v, a, s>>
      BY <2>0, <2>1, <2>3, <3>1 DEF EndEvidence
    <3>2. CASE <<x, b, t>> = <<v, a, s>>
      BY <2>3, <3>2 DEF EndEvidence
    <3> QED BY <3>1, <3>2
  <2>4. ASSUME NEW c \in Clients, NEW v \in Versions, NEW a \in Attributes, NEW s \in Slots,
               NEW successor \in Slots, SupersedeEvidence(c, v, a, s, successor)
        PROVE  Goal
    <3>0. <<v, a, s>> \in Evidence /\ <<v, a, successor>> \in Evidence /\ s # successor
      BY <2>4 DEF SupersedeEvidence, Evidence, NoLink
    <3>1. CASE <<x, b, t>> # <<v, a, s>> /\ <<x, b, t>> # <<v, a, successor>>
      BY <2>0, <2>1, <2>4, <3>1 DEF SupersedeEvidence
    <3>2. CASE <<x, b, t>> = <<v, a, s>>
      <4>1. link'[<<x, b, t>>].status = "superseded"
        BY <2>0, <2>4, <3>0, <3>2 DEF SupersedeEvidence, Link
      <4> QED BY <4>1 DEF CallsForReview
    <3>3. CASE <<x, b, t>> = <<v, a, successor>>
      <4>1. link'[<<x, b, t>>] = NewLink(link[<<v, a, s>>].contradicts)
        BY <2>0, <2>4, <3>0, <3>3 DEF SupersedeEvidence
      <4>2. link[<<v, a, s>>].contradicts
        BY <4>1 DEF CallsForReview, NewLink
      <4> QED BY <2>4, <3>3, <4>2 DEF SupersedeEvidence
    <3> QED BY <3>1, <3>2, <3>3
  <2>5. ASSUME NEW v \in Versions, NEW declared \in SUBSET Attributes, NEW cleared \in SUBSET Attributes,
               NEW s \in Slots, ApplyOnboarding(v, declared, cleared, s)
        PROVE  Goal
    <3> DEFINE stays == CurrentAttributes \ (declared \cup cleared)
    <3>1. /\ link' = CarriedOver(v, stays, declared, s) /\ reviewRequired' = Copied(v, stays)
          /\ version[v] = NoVersion
      BY <2>5 DEF ApplyOnboarding
    <3>2. stays # {} => current # None
      BY DEF CurrentAttributes
    <3> HIDE DEF stays
    <3>3. CASE x # v
      <4>1. link'[<<x, b, t>>] = link[<<x, b, t>>]
        BY <2>0, <3>1, <3>3 DEF CarriedOver
      <4> QED BY <2>1, <4>1
    <3>4. CASE x = v /\ b \in stays
      <4>1. current \in Versions
        BY <3>2, <3>4 DEF IInv, TypeOK
      <4>2. link[<<current, b, t>>] \in Link
        BY <4>1 DEF IInv, TypeOK, Evidence
      <4>3. link'[<<x, b, t>>] = [link[<<current, b, t>>] EXCEPT !.successor = None]
        BY <2>0, <3>1, <3>4 DEF CarriedOver
      <4>4. CallsForReview(link[<<current, b, t>>])
        BY <4>2, <4>3 DEF CallsForReview, Link
      <4>5. <<current, b>> \in reviewRequired
        BY <4>1, <4>4 DEF QuestionedIsMarked
      <4> QED BY <3>1, <3>4, <4>5 DEF Copied
    <3>5. CASE x = v /\ b \notin stays
      <4>1. link[<<x, b, t>>] = NoLink
        BY <3>1, <3>5 DEF IInv, EvidenceHasVersion, NoVersion
      <4>2. link'[<<x, b, t>>] \in {NewLink(FALSE), NoLink}
        BY <2>0, <3>1, <3>5, <4>1 DEF CarriedOver
      <4> QED BY <4>2 DEF CallsForReview, NewLink, NoLink
    <3> QED BY <3>3, <3>4, <3>5
  <2>6. ASSUME UNCHANGED link PROVE Goal
    BY <2>1, <2>6
  <2> HIDE DEF Goal
  <2>7. ASSUME UNCHANGED vars PROVE Goal
    BY <2>6, <2>7 DEF vars
  <2>8. ASSUME Next PROVE Goal
    BY <2>2, <2>3, <2>4, <2>5, <2>6, <2>8, LinkSteps
  <2>9. Goal
    BY <2>7, <2>8
  <2> QED BY <2>9 DEF Goal
<1> QED BY <1>1, <1>2, Invariance, PTL DEF Spec

\* A version that nobody saw as a draft is published on undisputed evidence: a
\* withdrawal carries none over, onboarding looks at what it does (UnseenIsUndisputed).
THEOREM UnseenIsSound == Spec => UnseenIsUndisputed
<1> DEFINE Sound ==
      \A v \in Versions : version[v] = NoVersion /\ version'[v].status = "published" =>
        \A a \in Attributes, s \in Slots :
            ~CallsForReview(link'[<<v, a, s>>])
<1>1. IInv /\ [Next]_vars => [Sound]_vars
  <2> SUFFICES ASSUME IInv, Next, NEW v \in Versions, version[v] = NoVersion,
                      version'[v].status = "published", NEW a \in Attributes, NEW s \in Slots
               PROVE  ~CallsForReview(link'[<<v, a, s>>])
    OBVIOUS
  <2> DEFINE Goal == ~CallsForReview(link'[<<v, a, s>>])
  <2>0. /\ <<v, a, s>> \in Evidence /\ link \in [Evidence -> Link]
        /\ version[v].status = "none" /\ link[<<v, a, s>>] = NoLink
    BY DEF IInv, TypeOK, Evidence, NoVersion, EvidenceHasVersion
  <2>1. ASSUME NEW w \in Versions, NEW declared \in SUBSET Attributes, NEW cleared \in SUBSET Attributes,
               NEW t \in Slots, ApplyOnboarding(w, declared, cleared, t)
        PROVE  Goal
    <3> DEFINE stays == CurrentAttributes \ (declared \cup cleared)
    <3>0. link' = CarriedOver(w, stays, declared, t)
      BY <2>1 DEF ApplyOnboarding
    <3>1. CASE w # v
      <4>1. <<v, a, s>>[1] # w
        BY <3>1
      <4> HIDE DEF stays
      <4>2. link'[<<v, a, s>>] = link[<<v, a, s>>]
        BY <2>0, <3>0, <4>1 DEF CarriedOver
      <4> QED BY <2>0, <4>2 DEF NoLink, CallsForReview
    <3>2. CASE w = v /\ a \in stays
      <4>1. ~NeedsReview(stays)
        BY <2>0, <2>1, <3>2 DEF ApplyOnboarding, IInv, TypeOK
      <4>2. current # None
        BY <3>2 DEF CurrentAttributes
      <4>3. link[<<current, a, s>>] \in Link
        BY <2>0, <4>2 DEF IInv, TypeOK, Evidence
      <4>4. link'[<<v, a, s>>] = [link[<<current, a, s>>] EXCEPT !.successor = None]
        BY <2>0, <2>1, <3>2 DEF ApplyOnboarding, CarriedOver
      <4>5. /\ link'[<<v, a, s>>].status = link[<<current, a, s>>].status
            /\ link'[<<v, a, s>>].contradicts = link[<<current, a, s>>].contradicts
        BY <4>3, <4>4 DEF Link
      <4> QED BY <3>2, <4>1, <4>5 DEF NeedsReview, CallsForReview
    <3>3. CASE w = v /\ a \notin stays
      <4>1. link'[<<v, a, s>>] \in {NewLink(FALSE), NoLink}
        BY <2>0, <2>1, <3>3 DEF ApplyOnboarding, CarriedOver
      <4> QED BY <4>1 DEF NewLink, NoLink, CallsForReview
    <3> QED BY <3>1, <3>2, <3>3
  <2>2. ASSUME UNCHANGED link PROVE Goal
    BY <2>0, <2>2 DEF NoLink, CallsForReview
  <2>3. ASSUME UNCHANGED version PROVE FALSE
    BY <2>0, <2>3
  <2>4. ASSUME NEW c \in Clients, NEW w \in Versions, NEW b \in Attributes, NEW t \in Slots,
               \/ \E contradicts \in BOOLEAN : LinkEvidence(c, w, b, t, contradicts)
               \/ \E ending \in Endings : EndEvidence(c, w, b, t, ending)
               \/ \E successor \in Slots : SupersedeEvidence(c, w, b, t, successor)
        PROVE  FALSE
    <3>1. UNCHANGED version
      BY <2>4 DEF LinkEvidence, EndEvidence, SupersedeEvidence
    <3> QED BY <2>3, <3>1
  <2> HIDE DEF Goal
  <2>5. Goal
    BY <2>1, <2>2, <2>4, LinkSteps
  <2> QED BY <2>5 DEF Goal
<1> QED BY <1>1, Invariance, PTL DEF Spec, UnseenIsUndisputed
-----------------------------------------------------------------------------
(* The refinement of ProfileHistory *)

Record   == {<<v, version[v].attributes>> : v \in Published}
Informed == {c \in Clients : UpToDate(c)}

LEMMA CountsInforms == ASSUME Counts PROVE Informed' = {}
BY DEF Counts, Informed, UpToDate

\* What becomes of a version that is not published is not history.
LEMMA DraftsAreNoHistory ==
    ASSUME NEW v \in Versions, v \notin Published, v \notin Published',
           \A w \in Versions : w # v => version'[w] = version[w]
    PROVE  Record' = Record
<1>1. Published' = Published
  BY DEF Published
<1>2. \A w \in Published : version'[w] = version[w]
  BY DEF Published
<1> QED BY <1>1, <1>2 DEF Record

LEMMA PublishingImplements ==
    ASSUME IInv, NEW v \in Versions, NEW attributes \in SUBSET Attributes, v \notin Published,
           Publishing(v, attributes), Counts, UNCHANGED other
    PROVE  History!Next
<1>0. version \in [Versions -> Version]
  BY DEF IInv, TypeOK
<1>1. ASSUME NEW w \in Versions, w # v
      PROVE  /\ version'[w].attributes = version[w].attributes
             /\ w \in Published' <=> w \in Published
  <2>1. CASE w = current
    <3>1. version[w].status = "published"
      BY <2>1 DEF IInv, CurrentIsPublished
    <3>2. version'[w] = [version[w] EXCEPT !.status = "superseded"] /\ version[w] \in Version
      BY <1>0, <1>1, <2>1 DEF Publishing
    <3>3. version'[w].status = "superseded" /\ version'[w].attributes = version[w].attributes
      BY <3>2 DEF Version, NoVersion
    <3> QED BY <3>1, <3>3 DEF Published
  <2>2. CASE w # current
    <3>1. version'[w] = version[w]
      BY <1>1, <2>2 DEF Publishing
    <3> QED BY <3>1 DEF Published
  <2> QED BY <2>1, <2>2
<1>2. version'[v] = [status |-> "published", attributes |-> attributes] /\ v \in Published'
  BY DEF Publishing, Published
<1>3. Record' = Record \cup {<<v, attributes>>}
  <2>1. ASSUME NEW h \in Record' PROVE h \in Record \cup {<<v, attributes>>}
    <3>1. PICK w \in Published' : h = <<w, version'[w].attributes>>
      BY DEF Record
    <3>2. w \in Versions
      BY DEF Published
    <3>3. CASE w = v
      BY <1>2, <3>1, <3>3
    <3>4. CASE w # v
      BY <1>1, <3>1, <3>2, <3>4 DEF Record
    <3> QED BY <3>3, <3>4
  <2>2. ASSUME NEW w \in Published PROVE <<w, version[w].attributes>> \in Record'
    <3>1. w \in Versions /\ w # v
      BY DEF Published
    <3>2. w \in Published' /\ version'[w].attributes = version[w].attributes
      BY <1>1, <3>1
    <3> QED BY <3>2 DEF Record
  <2>3. <<v, attributes>> \in Record'
    BY <1>2 DEF Record
  <2> QED BY <2>1, <2>2, <2>3 DEF Record
<1>4. \A h \in Record : h[1] # v
  BY DEF Record
<1>5. Informed' = {}
  BY CountsInforms
<1>6. History!Enter(v, attributes)
  BY <1>3, <1>4, <1>5 DEF History!Enter, Record, Informed, Publishing
<1>7. CASE status = "archived"
  <2>1. History!Reopen(v, attributes)
    BY <1>6, <1>7 DEF History!Reopen, Publishing, Released, MayBeOpen
  <2> QED BY <2>1 DEF History!Next
<1>8. CASE status # "archived"
  <2>1. History!Publish(v, attributes)
    BY <1>6, <1>8 DEF History!Publish, Publishing, Released
  <2> QED BY <2>1 DEF History!Next
<1> QED BY <1>7, <1>8

\* A command that publishes nothing and ends no review, and counts.
LEMMA CountingWorks ==
    ASSUME Counts, Record' = Record, UNCHANGED <<status, current, other>>
    PROVE  History!Next
<1>1. History!Work
  BY CountsInforms DEF History!Work, Record, Informed
<1> QED BY <1>1 DEF History!Next

\* The profile comes into question, or has only to be read again.
LEMMA ReviewImplements ==
    ASSUME NEW c \in Clients, UpToDate(c), NEW impact \in BOOLEAN, status' = Reviewed(impact),
           Counts, UNCHANGED <<current, other, version>>
    PROVE  History!Next
<1>1. Record' = Record
  BY DEF Record, Published
<1>2. CASE impact /\ status = "active"
  <2>1. History!Question
    BY <1>1, <1>2, CountsInforms DEF History!Question, Record, Informed, Reviewed
  <2> QED BY <2>1 DEF History!Next
<1>3. CASE ~(impact /\ status = "active")
  BY <1>1, <1>3, CountingWorks DEF Reviewed
<1> QED BY <1>2, <1>3

LEMMA ClientsImplement ==
    ASSUME IInv, NEW c \in Clients,
           ReadProfile(c) \/ Restrict(c) \/ Archive(c) \/ ChangePreference(c)
    PROVE  History!Next
<1>1. Record' = Record
  BY DEF ReadProfile, Restrict, Archive, ChangePreference, Record, Published
<1>2. CASE ReadProfile(c)
  <2>1. Profile # Unread
    BY DEF IInv, TypeOK, ProfileStatuses, Profile, Unread
  <2>2. Informed' = Informed \cup {c}
    BY <1>2, <2>1 DEF ReadProfile, Informed, UpToDate, IInv, TypeOK
  <2>3. History!Inform(c)
    BY <1>1, <1>2, <2>2 DEF History!Inform, ReadProfile, Record, Informed
  <2> QED BY <2>3 DEF History!Next
<1>3. ASSUME NEW closed \in {"restricted", "archived"}, UpToDate(c), status # "archived",
             status' = closed, Counts, UNCHANGED <<current, other>>
      PROVE  History!Next
  <2>1. History!Close(closed)
    BY <1>1, <1>3, CountsInforms DEF History!Close, Record, Informed
  <2> QED BY <2>1 DEF History!Next
<1>4. CASE Restrict(c) \/ Archive(c)
  BY <1>3, <1>4 DEF Restrict, Archive
<1>5. CASE ChangePreference(c)
  BY <1>1, <1>5, CountingWorks DEF ChangePreference
<1> QED BY <1>2, <1>4, <1>5

LEMMA CreateDraftImplements ==
    ASSUME IInv, NEW c \in Clients, NEW v \in Versions, NEW copies \in BOOLEAN,
           CreateDraft(c, v, copies)
    PROVE  History!Next
<1>1. /\ version[v].status = "none" /\ version'[v].status = "draft"
      /\ \A w \in Versions : w # v => version'[w] = version[w]
  BY DEF CreateDraft, IInv, TypeOK, NoVersion
<1>2. Record' = Record
  BY <1>1, DraftsAreNoHistory DEF Published
<1> QED BY <1>2, CountingWorks DEF CreateDraft

LEMMA AddDeclaredAttributeImplements ==
    ASSUME IInv, NEW v \in Versions, NEW a \in Attributes, AddDeclaredAttribute(v, a)
    PROVE  UNCHANGED History!profile
<1>1. version[v] \in Version /\ version[v].status = "draft"
  BY DEF AddDeclaredAttribute, IInv, TypeOK
<1>2. /\ version'[v] = [version[v] EXCEPT !.attributes = version[v].attributes \cup {a}]
      /\ \A w \in Versions : w # v => version'[w] = version[w]
  BY DEF AddDeclaredAttribute, IInv, TypeOK
<1>3. version'[v].status = "draft"
  BY <1>1, <1>2 DEF Version, NoVersion
<1>4. Record' = Record
  BY <1>1, <1>2, <1>3, DraftsAreNoHistory DEF Published
<1> QED BY <1>4 DEF AddDeclaredAttribute, History!profile, Record, UpToDate

LEMMA WithdrawDeclaredAttributeImplements ==
    ASSUME IInv, NEW c \in Clients, NEW v \in Versions, NEW w \in Versions, NEW a \in Attributes,
           WithdrawDeclaredAttribute(c, v, w, a)
    PROVE  History!Next
<1> DEFINE attributes == IF w = current THEN CurrentAttributes \ {a} ELSE CurrentAttributes
<1>1. attributes \in SUBSET Attributes
  BY DEF IInv, TypeOK, CurrentAttributes, Version, NoVersion
<1>2. v \notin Published /\ Publishing(v, attributes) /\ Counts /\ UNCHANGED other
  BY DEF WithdrawDeclaredAttribute, NoVersion, Published
<1> HIDE DEF attributes
<1> QED BY <1>1, <1>2, PublishingImplements

LEMMA EvidenceImplements ==
    ASSUME IInv, NEW c \in Clients, NEW v \in Versions, NEW a \in Attributes, NEW s \in Slots,
           EvidenceStep(c, v, a, s)
    PROVE  History!Next \/ UNCHANGED History!profile
<1>0. <<v, a, s>> \in Evidence /\ link[<<v, a, s>>].contradicts \in BOOLEAN
  BY DEF IInv, TypeOK, Evidence, Link
<1>1. ASSUME NEW contradicts \in BOOLEAN, LinkEvidence(c, v, a, s, contradicts)
      PROVE  History!Next \/ UNCHANGED History!profile
  <2>1. CASE contradicts /\ status = "needs_review"
    BY <1>1, <2>1
    DEF LinkEvidence, Reviewed, History!profile, Published, UpToDate
  <2>2. CASE ~(contradicts /\ status = "needs_review")
    BY <1>1, <2>2, ReviewImplements DEF LinkEvidence
  <2> QED BY <2>1, <2>2
<1>2. ASSUME NEW ending \in Endings, EndEvidence(c, v, a, s, ending) PROVE History!Next
  <2>1. (link[<<v, a, s>>].contradicts \/ ending # "stale") \in BOOLEAN
    OBVIOUS
  <2> QED BY <1>2, <2>1, ReviewImplements DEF EndEvidence
<1>3. ASSUME NEW successor \in Slots, SupersedeEvidence(c, v, a, s, successor) PROVE History!Next
  BY <1>0, <1>3, ReviewImplements DEF SupersedeEvidence
<1> QED BY <1>1, <1>2, <1>3 DEF EvidenceStep

LEMMA ApplyOnboardingImplements ==
    ASSUME IInv, NEW v \in Versions, NEW declared \in SUBSET Attributes,
           NEW cleared \in SUBSET Attributes, NEW s \in Slots,
           ApplyOnboarding(v, declared, cleared, s)
    PROVE  History!Next
<1> DEFINE attributes == (CurrentAttributes \ (declared \cup cleared)) \cup declared
<1>1. CurrentAttributes \in SUBSET Attributes
  BY DEF IInv, TypeOK, CurrentAttributes, Version, NoVersion
<1>2. attributes \in SUBSET Attributes
  BY <1>1
<1>3. /\ version[v].status = "none" /\ Counts /\ UNCHANGED other
      /\ \/ /\ version' = [version EXCEPT ![v] = [status |-> "draft", attributes |-> attributes]]
            /\ UNCHANGED <<status, current>>
         \/ Publishing(v, attributes)
  BY DEF ApplyOnboarding, NoVersion
<1> HIDE DEF attributes
<1>4. CASE Publishing(v, attributes)
  BY <1>2, <1>3, <1>4, PublishingImplements DEF Published
<1>5. CASE /\ version' = [version EXCEPT ![v] = [status |-> "draft", attributes |-> attributes]]
           /\ UNCHANGED <<status, current>>
  <2>1. version'[v].status = "draft" /\ \A w \in Versions : w # v => version'[w] = version[w]
    BY <1>5 DEF IInv, TypeOK
  <2>2. Record' = Record
    BY <1>3, <2>1, DraftsAreNoHistory DEF Published
  <2> QED BY <1>3, <1>5, <2>2, CountingWorks
<1> QED BY <1>3, <1>4, <1>5

LEMMA HistorySteps == IInv /\ [Next]_vars => [History!Next]_(History!profile)
<1> DEFINE Goal == History!Next \/ UNCHANGED History!profile
<1> SUFFICES ASSUME IInv, [Next]_vars PROVE Goal
  OBVIOUS
<1>1. ASSUME NEW c \in Clients,
             ReadProfile(c) \/ Restrict(c) \/ Archive(c) \/ ChangePreference(c)
      PROVE  Goal
  BY <1>1, ClientsImplement
<1>2. ASSUME NEW c \in Clients, NEW v \in Versions, NEW copies \in BOOLEAN, CreateDraft(c, v, copies)
      PROVE  Goal
  BY <1>2, CreateDraftImplements
<1>3. ASSUME NEW c \in Clients, NEW v \in Versions, Publish(c, v) PROVE Goal
  <2>1. version[v].attributes \in SUBSET Attributes
    BY DEF IInv, TypeOK, Version, NoVersion
  <2> QED BY <1>3, <2>1, PublishingImplements DEF Publish, Published
<1>4. ASSUME NEW c \in Clients, NEW v \in Versions, NEW w \in Versions, NEW a \in Attributes,
             WithdrawDeclaredAttribute(c, v, w, a)
      PROVE  Goal
  BY <1>4, WithdrawDeclaredAttributeImplements
<1>5. ASSUME NEW v \in Versions, NEW a \in Attributes, AddDeclaredAttribute(v, a) PROVE Goal
  BY <1>5, AddDeclaredAttributeImplements
<1>6. ASSUME NEW c \in Clients, NEW v \in Versions, NEW a \in Attributes, NEW s \in Slots,
             EvidenceStep(c, v, a, s)
      PROVE  Goal
  BY <1>6, EvidenceImplements
<1>7. ASSUME NEW v \in Versions, NEW declared \in SUBSET Attributes,
             NEW cleared \in SUBSET Attributes, NEW s \in Slots,
             ApplyOnboarding(v, declared, cleared, s)
      PROVE  Goal
  BY <1>7, ApplyOnboardingImplements
<1>8. CASE OpenAnother \/ ArchiveAnother
  <2>1. Record' = Record /\ Informed' = Informed
    BY <1>8 DEF OpenAnother, ArchiveAnother, Record, Published, Informed, UpToDate
  <2>2. History!OpenAnother \/ History!ArchiveAnother
    BY <1>8, <2>1 DEF OpenAnother, ArchiveAnother, History!OpenAnother, History!ArchiveAnother,
                      Record, Informed
  <2> QED BY <2>2 DEF History!Next
<1>9. CASE UNCHANGED vars
  BY <1>9 DEF vars, History!profile, Published, UpToDate
<1> HIDE DEF Goal
<1> QED BY <1>1, <1>2, <1>3, <1>4, <1>5, <1>6, <1>7, <1>8, <1>9 DEF Next

\* The commands on versions, drafts and evidence implement a history that only
\* grows, known as it is by whoever is taken to know it (ImplementsHistory).
THEOREM ImplementsTheHistory == Spec => ImplementsHistory
<1>1. Init => History!Init
  <2>1. Init => Record = {} /\ Informed = {}
    BY DEF Init, Record, Published, NoVersion, Informed, UpToDate
  <2> QED BY <2>1 DEF Init, History!Init, History!None, None, Record, Informed
<1> QED BY <1>1, HistorySteps, Invariance, PTL DEF Spec, ImplementsHistory, History!Spec
=============================================================================
