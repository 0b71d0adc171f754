--------------------------- MODULE LearningIdentity ---------------------------
(***************************************************************************)
(* The governed learning profile of one learner.  A profile has versions:  *)
(* a draft gathers declared attributes and the evidence for them, until    *)
(* its publication supersedes the version before.  Every command is one    *)
(* transaction under the lock of the profile's row, so that commands do    *)
(* not overlap; what overlaps is a client that read the profile and a      *)
(* command that comes before its own.                                      *)
(*                                                                         *)
(* The counter that guards against that is modelled by what it tells: a    *)
(* command with an expected version is accepted iff the counter has not    *)
(* moved since its client read the profile.  A client keeps what it read   *)
(* until then.  Values of attributes, the sources of evidence and the      *)
(* preferences are left out, as are receipts and idempotency keys: a       *)
(* repeated command only answers.                                          *)
(***************************************************************************)
EXTENDS FiniteSets, Naturals

CONSTANTS
    Clients,      \* those who read the profile and send commands
    Versions,     \* profile versions that may be created
    Attributes,   \* attribute types
    Slots,        \* pieces of evidence an attribute may have
    MaxEvidence   \* bound: nothing more is linked when there is so much evidence

ASSUME NamesAreDistinct == "none" \notin Versions \cup Slots

VARIABLES
    status,    \* of the profile
    current,   \* its current version, or None
    other,     \* the learner has another profile, which is not archived
    version,   \* the LearningProfileVersions
    link,      \* the LearningIdentityEvidenceLinks of each attribute
    reviewRequired,  \* the attributes of versions that somebody has to look at
    view       \* what a client read, while the counter has not moved since

vars == <<status, current, other, version, link, reviewRequired, view>>

None   == "none"
Unread == [status |-> "unread"]

ProfileStatuses == {"draft", "active", "needs_review", "restricted", "archived"}

NoVersion == [status |-> "none", attributes |-> {}]
Version   == {NoVersion} \cup
    [status : {"draft", "published", "superseded"}, attributes : SUBSET Attributes]

Evidence == Versions \X Attributes \X Slots
Terminal == {"withdrawn", "invalidated", "superseded"}
Link     ==
    [status : {"none", "active", "stale"} \cup Terminal, contradicts : BOOLEAN, successor : {None}]
        \cup [status : {"superseded"}, contradicts : BOOLEAN, successor : Slots]
NoLink   == [status |-> "none", contradicts |-> FALSE, successor |-> None]
NewLink(contradicts) == [status |-> "active", contradicts |-> contradicts, successor |-> None]

\* What a reader is told of the current version's evidence.
Told == IF current = None THEN [e \in Attributes \X Slots |-> NoLink]
        ELSE [e \in Attributes \X Slots |-> link[<<current, e[1], e[2]>>]]
Profile == [status |-> status, current |-> current, evidence |-> Told]
View    == [status : ProfileStatuses, current : Versions \cup {None},
            evidence : [Attributes \X Slots -> Link]]

Linked == {e \in Evidence : link[e] # NoLink}

Init ==
    /\ status = "draft"
    /\ current = None
    /\ other = FALSE
    /\ version = [v \in Versions |-> NoVersion]
    /\ link = [e \in Evidence |-> NoLink]
    /\ reviewRequired = {}
    /\ view = [c \in Clients |-> Unread]
-----------------------------------------------------------------------------
Drafts == {v \in Versions : version[v].status = "draft"}

CurrentAttributes == IF current = None THEN {} ELSE version[current].attributes

UpToDate(c) == view[c] # Unread
Counts      == view' = [c \in Clients |-> Unread]

\* Mutant: a publication lifts the restriction.
Released_Always == "active"

\* The status after a publication, which an archived profile leaves as well.
Released == IF status = "restricted" THEN "restricted" ELSE "active"

\* Mutant: no constraint on the table.
MayBeOpen_Unconstrained == TRUE

\* li_one_open_profile_per_learner refuses to open a second one.
MayBeOpen == status = "archived" => ~other

\* Mutant: the version before stays published.
Publishing_Both(v, attributes) ==
    /\ MayBeOpen
    /\ version' = [version EXCEPT ![v] = [status |-> "published", attributes |-> attributes]]
    /\ current' = v
    /\ status' = Released

\* v, with these attributes, becomes the current version.
Publishing(v, attributes) ==
    /\ MayBeOpen
    /\ version' = [w \in Versions |->
            IF w = v THEN [status |-> "published", attributes |-> attributes]
            ELSE IF w = current THEN [version[w] EXCEPT !.status = "superseded"]
            ELSE version[w]]
    /\ current' = v
    /\ status' = Released

\* Mutant: the copies lose the mark.
Copied_Unmarked(v, attributes) == reviewRequired

\* Attributes that are copied from the current version to v keep the mark.
Copied(v, attributes) ==
    reviewRequired \cup {<<v, a>> : a \in {b \in attributes : <<current, b>> \in reviewRequired}}

\* A contradiction, or evidence that is gone, is for somebody to review.
Reviewed(impact) == IF impact /\ status = "active" THEN "needs_review" ELSE status
-----------------------------------------------------------------------------
ReadProfile(c) ==
    /\ view' = [view EXCEPT ![c] = Profile]
    /\ UNCHANGED <<status, current, other, version, link, reviewRequired>>

CreateDraft(c, v, copies) ==
    /\ UpToDate(c)
    /\ status # "archived"
    /\ Drafts = {}
    /\ version[v] = NoVersion
    /\ version' = [version EXCEPT ![v] =
            [status |-> "draft", attributes |-> IF copies THEN CurrentAttributes ELSE {}]]
    /\ reviewRequired' = IF copies THEN Copied(v, CurrentAttributes) ELSE reviewRequired
    /\ Counts
    /\ UNCHANGED <<status, current, other, link>>

\* Mutant: a version may be added to when it is no draft any more.
AddDeclaredAttribute_Anytime(v, a) ==
    /\ version[v] # NoVersion
    /\ status # "archived"
    /\ a \notin version[v].attributes
    /\ version' = [version EXCEPT ![v].attributes = version[v].attributes \cup {a}]
    /\ UNCHANGED <<status, current, other, link, reviewRequired, view>>

\* This one neither expects a version nor counts. No caller marks what it adds
\* for review, which is a parameter.
AddDeclaredAttribute(v, a) ==
    /\ version[v].status = "draft"
    /\ status # "archived"
    /\ a \notin version[v].attributes
    /\ version' = [version EXCEPT ![v].attributes = version[v].attributes \cup {a}]
    /\ UNCHANGED <<status, current, other, link, reviewRequired, view>>

\* Declared attributes never block, so that evidence of any kind lets it pass.
Publish(c, v) ==
    /\ UpToDate(c)
    /\ version[v].status = "draft"
    /\ version[v].attributes # {}
    /\ Publishing(v, version[v].attributes)
    /\ Counts
    /\ UNCHANGED <<other, link, reviewRequired>>

\* Attribute a of version w leaves the profile: at once, whether or not the
\* profile is archived, has the attribute or keeps another one.
WithdrawDeclaredAttribute(c, v, w, a) ==
    /\ UpToDate(c)
    /\ Drafts = {}
    /\ a \in version[w].attributes
    /\ version[v] = NoVersion
    /\ LET attributes == IF w = current THEN CurrentAttributes \ {a} ELSE CurrentAttributes IN
        /\ Publishing(v, attributes)
        /\ reviewRequired' = Copied(v, attributes)
    /\ Counts
    /\ UNCHANGED <<other, link>>

\* In a profile that needs review already, a contradiction does not count.
LinkEvidence(c, v, a, s, contradicts) ==
    /\ UpToDate(c)
    /\ version[v].status = "draft"
    /\ a \in version[v].attributes
    /\ Cardinality(Linked) < MaxEvidence
    /\ link[<<v, a, s>>] = NoLink
    /\ link' = [link EXCEPT ![<<v, a, s>>] = NewLink(contradicts)]
    /\ status' = Reviewed(contradicts)
    /\ reviewRequired' = IF contradicts THEN reviewRequired \cup {<<v, a>>} ELSE reviewRequired
    /\ IF contradicts /\ status = "needs_review" THEN UNCHANGED view ELSE Counts
    /\ UNCHANGED <<current, other, version>>

Endings == {"withdrawn", "invalidated", "stale"}

\* Mutants: terminal evidence may end again; the profile is not told of the end;
\* nor are those who read it.
EndEvidence_Again(c, v, a, s, ending) ==
    /\ UpToDate(c)
    /\ link[<<v, a, s>>].status # "none"
    /\ link' = [link EXCEPT ![<<v, a, s>>].status = ending]
    /\ status' = Reviewed(link[<<v, a, s>>].contradicts \/ ending # "stale")
    /\ reviewRequired' = reviewRequired \cup {<<v, a>>}
    /\ Counts
    /\ UNCHANGED <<current, other, version>>
EndEvidence_NoImpact(c, v, a, s, ending) ==
    /\ UpToDate(c)
    /\ link[<<v, a, s>>].status \in {"active", "stale", ending}
    /\ link' = [link EXCEPT ![<<v, a, s>>].status = ending]
    /\ reviewRequired' = reviewRequired \cup {<<v, a>>}
    /\ Counts
    /\ UNCHANGED <<status, current, other, version>>
EndEvidence_Uncounted(c, v, a, s, ending) ==
    /\ UpToDate(c)
    /\ link[<<v, a, s>>].status \in {"active", "stale", ending}
    /\ link' = [link EXCEPT ![<<v, a, s>>].status = ending]
    /\ status' = Reviewed(link[<<v, a, s>>].contradicts \/ ending # "stale")
    /\ reviewRequired' = reviewRequired \cup {<<v, a>>}
    /\ UNCHANGED <<current, other, version, view>>

\* Withdrawal, invalidation and staleness, of evidence for any version.
EndEvidence(c, v, a, s, ending) ==
    /\ UpToDate(c)
    /\ link[<<v, a, s>>].status \in {"active", "stale", ending}
    /\ link' = [link EXCEPT ![<<v, a, s>>].status = ending]
    /\ status' = Reviewed(link[<<v, a, s>>].contradicts \/ ending # "stale")
    /\ reviewRequired' = reviewRequired \cup {<<v, a>>}
    /\ Counts
    /\ UNCHANGED <<current, other, version>>

\* The successor is linked like any evidence, so that the version is a draft.
SupersedeEvidence(c, v, a, s, successor) ==
    /\ UpToDate(c)
    /\ version[v].status = "draft"
    /\ link[<<v, a, s>>].status \in {"active", "stale"}
    /\ Cardinality(Linked) < MaxEvidence
    /\ link[<<v, a, successor>>] = NoLink
    /\ link' = [link EXCEPT
            ![<<v, a, successor>>] = NewLink(link[<<v, a, s>>].contradicts),
            ![<<v, a, s>>].status = "superseded",
            ![<<v, a, s>>].successor = successor]
    /\ status' = Reviewed(link[<<v, a, s>>].contradicts)
    /\ reviewRequired' = IF link[<<v, a, s>>].contradicts
                         THEN reviewRequired \cup {<<v, a>>} ELSE reviewRequired
    /\ Counts
    /\ UNCHANGED <<current, other, version>>

\* Mutant: the provenance is not looked at.
NeedsReview_Never(attributes) == FALSE

\* Evidence that is a reason to review the attribute it was linked to.
CallsForReview(l) ==
    \/ l.status \in {"stale", "withdrawn", "invalidated"}
    \/ l.status = "active" /\ l.contradicts

\* evaluate_profile_version_provenance, of what is carried over for these attributes.
\* It counts reasons, and an attribute's mark by itself is none.
NeedsReview(attributes) ==
    \E a \in attributes, s \in Slots : CallsForReview(link[<<current, a, s>>])

\* Evidence of the attributes that stay is carried over, without successors;
\* each declared attribute is supported by the session.
CarriedOver(v, stays, declared, s) ==
    [e \in Evidence |->
        IF e[1] # v THEN link[e]
        ELSE IF e[2] \in stays
        THEN [link[<<current, e[2], e[3]>>] EXCEPT !.successor = None]
        ELSE IF e[2] \in declared /\ e[3] = s THEN NewLink(FALSE)
        ELSE link[e]]

\* Confirmed answers declare some attributes anew and clear others. The version
\* is published unless somebody has to look at it; then it stays, as a draft.
ApplyOnboarding(v, declared, cleared, s) ==
    LET stays      == CurrentAttributes \ (declared \cup cleared)
        attributes == stays \cup declared
    IN
    /\ status # "archived"
    /\ Drafts = {}
    /\ version[v] = NoVersion
    /\ cleared \subseteq CurrentAttributes \ declared
    /\ declared \cup cleared # {}
    /\ IF attributes = {} \/ NeedsReview(stays)
       THEN /\ version' = [version EXCEPT ![v] = [status |-> "draft", attributes |-> attributes]]
            /\ UNCHANGED <<status, current>>
       ELSE Publishing(v, attributes)
    /\ link' = CarriedOver(v, stays, declared, s)
    /\ reviewRequired' = Copied(v, stays)
    /\ Counts
    /\ UNCHANGED other

Restrict(c) ==
    /\ UpToDate(c)
    /\ status # "archived"
    /\ status' = "restricted"
    /\ Counts
    /\ UNCHANGED <<current, other, version, link, reviewRequired>>

Archive(c) ==
    /\ UpToDate(c)
    /\ status # "archived"
    /\ status' = "archived"
    /\ Counts
    /\ UNCHANGED <<current, other, version, link, reviewRequired>>

\* A preference is set or withdrawn, in a profile of whatever status.
ChangePreference(c) ==
    /\ UpToDate(c)
    /\ Counts
    /\ UNCHANGED <<status, current, other, version, link, reviewRequired>>

\* The learner gets another profile, by itself or from onboarding.
OpenAnother ==
    /\ status = "archived"
    /\ ~other
    /\ other' = TRUE
    /\ UNCHANGED <<status, current, version, link, reviewRequired, view>>

ArchiveAnother ==
    /\ other
    /\ other' = FALSE
    /\ UNCHANGED <<status, current, version, link, reviewRequired, view>>

EvidenceStep(c, v, a, s) ==
    \/ \E contradicts \in BOOLEAN : LinkEvidence(c, v, a, s, contradicts)
    \/ \E ending \in Endings : EndEvidence(c, v, a, s, ending)
    \/ \E successor \in Slots : SupersedeEvidence(c, v, a, s, successor)

Next ==
    \/ \E c \in Clients :
        \/ ReadProfile(c) \/ Restrict(c) \/ Archive(c) \/ ChangePreference(c)
        \/ \E v \in Versions :
            \/ \E copies \in BOOLEAN : CreateDraft(c, v, copies)
            \/ Publish(c, v)
            \/ \E w \in Versions, a \in Attributes : WithdrawDeclaredAttribute(c, v, w, a)
            \/ \E a \in Attributes, s \in Slots : EvidenceStep(c, v, a, s)
    \/ \E v \in Versions, a \in Attributes : AddDeclaredAttribute(v, a)
    \/ \E v \in Versions, declared, cleared \in SUBSET Attributes, s \in Slots :
        ApplyOnboarding(v, declared, cleared, s)
    \/ OpenAnother \/ ArchiveAnother

Spec == Init /\ [][Next]_vars
-----------------------------------------------------------------------------
TypeOK ==
    /\ status \in ProfileStatuses
    /\ current \in Versions \cup {None}
    /\ other \in BOOLEAN
    /\ version \in [Versions -> Version]
    /\ link \in [Evidence -> Link]
    /\ reviewRequired \in SUBSET (Versions \X Attributes)
    /\ view \in [Clients -> View \cup {Unread}]

\* The current version is the one that is published, with at most one draft beside
\* it, and a profile in use has one.
CurrentIsPublished ==
    /\ \A v \in Versions : version[v].status = "published" <=> current = v
    /\ \A v, w \in Drafts : v = w
    /\ status \in {"active", "needs_review"} => current # None

\* Who holds an accepted version of the counter knows the status, the current
\* version and its evidence: nobody acts on a profile that has become another.
ReadIsTrue == \A c \in Clients : UpToDate(c) => view[c] = Profile

\* The learner has one open profile, whatever the archived ones come back from.
OneOpenProfile == other => status = "archived"

\* What was published is history: nothing is declared or linked for it any more.
HistoryIsFrozen ==
    [][\A v \in Versions : version[v].status \in {"published", "superseded"} =>
        /\ version'[v].attributes = version[v].attributes
        /\ version'[v].status \in {version[v].status, "superseded"}
        /\ \A a \in Attributes, s \in Slots :
            link[<<v, a, s>>] = NoLink => link'[<<v, a, s>>] = NoLink]_vars

\* A restriction is lifted by nothing but the archive, whatever is published.
RestrictionHolds == [][status = "restricted" => status' \in {"restricted", "archived"}]_vars

\* Evidence that is withdrawn, invalidated or superseded stays what it is.
TerminalIsFinal ==
    [][\A e \in Evidence : link[e].status \in Terminal => link'[e] = link[e]]_vars

Disputes(l) == l.status # "none" /\ (l.contradicts \/ l.status \in {"withdrawn", "invalidated"})

\* A profile is not active in the state where its evidence became disputed.
ImpactReachesProfile ==
    [][\A e \in Evidence :
        version[e[1]] # NoVersion /\ ~Disputes(link[e]) /\ Disputes(link'[e])
            => status' # "active"]_vars

\* An attribute with evidence that is a reason to review it is marked, in every
\* version that it is copied to: the learner's memory takes it as not in use.
QuestionedIsMarked ==
    \A v \in Versions, a \in Attributes, s \in Slots :
        CallsForReview(link[<<v, a, s>>]) => <<v, a>> \in reviewRequired

\* What is published in the step that creates it, with nobody to look at it, brings
\* no evidence that is a reason to review it.
UnseenIsUndisputed ==
    [][\A v \in Versions : version[v] = NoVersion /\ version'[v].status = "published" =>
        \A a \in Attributes, s \in Slots : ~CallsForReview(link'[<<v, a, s>>])]_vars

\* An archived profile receives no draft version, as its model says: no command
\* creates a version in it, whatever it then does with it.
ArchivedTakesNoDraft ==
    [][status = "archived" =>
        \A v \in Versions : version[v] = NoVersion => version'[v] = NoVersion]_vars

\* The versions, drafts and evidence implement the history they are there for: it
\* only grows, and whoever is taken to know the profile knows its latest version.
Published == {v \in Versions : version[v].status \in {"published", "superseded"}}

History == INSTANCE ProfileHistory
              WITH phase <- status, elsewhere <- other,
                   history <- {<<v, version[v].attributes>> : v \in Published},
                   informed <- {c \in Clients : UpToDate(c)}

ImplementsHistory == History!Spec
=============================================================================
