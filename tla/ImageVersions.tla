---------------------------- MODULE ImageVersions ----------------------------
(***************************************************************************)
(* One HelmRelease of the platform-mesh-operator and the two engines that  *)
(* write it.  The Deployment subroutine renders the release from the       *)
(* profile and applies it (server-side apply, forced); the Resource engine *)
(* writes the location of every image that OCM has resolved into the       *)
(* release's values (read, then update with a resource version) and        *)
(* records it in the ImageVersionStore, a map in the operator's memory     *)
(* that the Deployment subroutine merges into what it renders.             *)
(*                                                                         *)
(* A location is a tag and, for some versions, a digest.  The value of a   *)
(* field is the version it was taken from; 0 is the profile's default or   *)
(* no value at all.                                                        *)
(***************************************************************************)
EXTENDS Integers, FiniteSets

CONSTANTS
  Images,       \* the image Resources written into the release
  Defaults,     \* the images whose tag the profile gives a value
  Unsuspending, \* the images whose Resource has the annotation unsuspend
  Digested,     \* the versions whose location has a digest
  MaxVersion,   \* bound: versions of one image
  Latest,       \* the last version that is published of each image
  MaxImageFaults   \* bound: restarts of the operator and failed passes

ASSUME ImagesAssumption ==
  /\ Defaults \subseteq Images
  /\ Unsuspending \subseteq Images
  /\ MaxVersion \in Nat \ {0} /\ Latest \in [Images -> 1..MaxVersion]
  /\ Digested \subseteq 1..MaxVersion
  /\ MaxImageFaults \in Nat

VARIABLES
  resource,  \* image -> version in the status of its Resource, 0: none yet
  release,   \* the HelmRelease in the cluster
  sole,      \* the fields of the release only the Deployment subroutine owns
  store,     \* the ImageVersionStore
  rendered,  \* what the Deployment subroutine has rendered and not applied
  job,       \* image -> the pass of the Resource engine over its Resource
  imageFaults \* restarts and failures so far

imageVars == <<resource, release, sole, store, rendered, job, imageFaults>>

Versions == 0..MaxVersion
Leaves == {"tag", "digest"}
Fields == Images \X Leaves
Nothing == [f \in Fields |-> 0]

Release == [exists : BOOLEAN, value : [Fields -> Versions], suspend : BOOLEAN]
Job == [step : {"idle", "update", "tag", "digest", "flag"},
        version : Versions, current : BOOLEAN]
Idle == [step |-> "idle", version |-> 0, current |-> FALSE]
NotRendered == [pending |-> FALSE, value |-> Nothing, suspend |-> FALSE]
EmptyStore == [value |-> Nothing, unsuspended |-> FALSE]

ImageInit ==
  /\ resource = [i \in Images |-> 0]
  /\ release = [exists |-> FALSE, value |-> Nothing, suspend |-> FALSE]
  /\ sole = {}
  /\ store = EmptyStore
  /\ rendered = NotRendered
  /\ job = [i \in Images |-> Idle]
  /\ imageFaults = 0

-----------------------------------------------------------------------------
\* OCM

\* The OCM controller resolves an image, or a newer version of it.
Publish(i) ==
  /\ resource[i] < Latest[i]
  /\ resource' = [resource EXCEPT ![i] = @ + 1]
  /\ UNCHANGED <<release, sole, store, rendered, job, imageFaults>>

\* The value of a leaf in the location of version v.
Location(v, leaf) == IF leaf = "tag" \/ v \in Digested THEN v ELSE 0

-----------------------------------------------------------------------------
\* The Deployment subroutine

\* Every change to the release outdates the copies that passes have read.
Outdated(jobs, changed) ==
  IF changed THEN [i \in Images |-> [jobs[i] EXCEPT !.current = FALSE]] ELSE jobs

Known(f) == store.value[f] # 0

\* Mutant of Merged: the suspension is always the profile's.
MutResuspends == [pending |-> TRUE, value |-> store.value, suspend |-> TRUE]

\* The versions in the store are merged into the values; without any, the
\* release is rendered as the profile says, its suspension included.
Merged ==
  [pending |-> TRUE,
   value |-> store.value,
   suspend |-> ~((\E f \in Fields : Known(f)) /\ store.unsuspended)]

Render ==
  /\ ~rendered.pending
  /\ rendered' = Merged
  /\ UNCHANGED <<resource, release, sole, store, job, imageFaults>>

\* The fields of the applied object: what was merged, and the profile's values.
Applied == {f \in Fields : rendered.value[f] # 0
                           \/ (f[1] \in Defaults /\ f[2] = "tag")}

\* Forced server-side apply: the applied fields get their values; a field
\* left out is removed when nobody else owns it.
AfterApply ==
  [exists |-> TRUE,
   value |-> [f \in Fields |-> IF f \in Applied THEN rendered.value[f]
                               ELSE IF f \in sole THEN 0
                               ELSE release.value[f]],
   suspend |-> rendered.suspend]

Apply ==
  /\ rendered.pending
  /\ release' = AfterApply
  /\ sole' = {f \in Applied : f \in sole \/ release.value[f] # rendered.value[f]}
  /\ job' = Outdated(job, AfterApply # release \/ sole' # sole)
  /\ rendered' = NotRendered
  /\ UNCHANGED <<resource, store, imageFaults>>

\* Rendering or applying fails; the platform mesh is reconciled again.
ApplyFails ==
  /\ rendered.pending
  /\ imageFaults < MaxImageFaults
  /\ rendered' = NotRendered
  /\ imageFaults' = imageFaults + 1
  /\ UNCHANGED <<resource, release, sole, store, job>>

-----------------------------------------------------------------------------
\* The Resource engine

\* The pass reads the Resource, then the release it is for; without either
\* it fails and is retried.
ReadRelease(i) ==
  /\ job[i].step = "idle"
  /\ resource[i] # 0
  /\ release.exists
  /\ job' = [job EXCEPT ![i] = [step |-> "update", version |-> resource[i],
                                current |-> TRUE]]
  /\ UNCHANGED <<resource, release, sole, store, rendered, imageFaults>>

\* The release with the location of the image: the tag, the digest or no digest.
Injected(i, v) ==
  [release EXCEPT
     !.value = [f \in Fields |-> IF f[1] = i THEN Location(v, f[2]) ELSE @[f]],
     !.suspend = IF i \in Unsuspending THEN FALSE ELSE @]

\* The update of the copy that was read; the server refuses an outdated one
\* and the pass is retried.
UpdateRelease(i) ==
  /\ job[i].step = "update"
  /\ IF job[i].current
     THEN LET new == Injected(i, job[i].version)
          IN  /\ release' = new
              /\ sole' = {f \in sole : new.value[f] = release.value[f]}
              /\ job' = Outdated([job EXCEPT ![i].step = "tag"], new # release)
     ELSE /\ job' = [job EXCEPT ![i] = Idle]
          /\ UNCHANGED <<release, sole>>
  /\ UNCHANGED <<resource, store, rendered, imageFaults>>

\* The store is written after the release, one entry at a time.
StoreTag(i) ==
  /\ job[i].step = "tag"
  /\ store' = [store EXCEPT !.value[<<i, "tag">>] = job[i].version]
  /\ job' = [job EXCEPT ![i].step = "digest"]
  /\ UNCHANGED <<resource, release, sole, rendered, imageFaults>>

StoreDigest(i) ==
  /\ job[i].step = "digest"
  /\ store' = [store EXCEPT !.value[<<i, "digest">>] =
                 Location(job[i].version, "digest")]
  /\ job' = [job EXCEPT ![i] = IF i \in Unsuspending
                               THEN [@ EXCEPT !.step = "flag"] ELSE Idle]
  /\ UNCHANGED <<resource, release, sole, rendered, imageFaults>>

StoreUnsuspended(i) ==
  /\ job[i].step = "flag"
  /\ store' = [store EXCEPT !.unsuspended = TRUE]
  /\ job' = [job EXCEPT ![i] = Idle]
  /\ UNCHANGED <<resource, release, sole, rendered, imageFaults>>

ResourcePass(i) ==
  ReadRelease(i) \/ UpdateRelease(i) \/ StoreTag(i) \/ StoreDigest(i)
    \/ StoreUnsuspended(i)

\* The operator's memory is gone: the store, and the passes under way.
LoseStore ==
  /\ imageFaults < MaxImageFaults
  /\ imageFaults' = imageFaults + 1
  /\ store' = EmptyStore
  /\ rendered' = NotRendered
  /\ job' = [i \in Images |-> Idle]
  /\ UNCHANGED <<resource, release, sole>>

-----------------------------------------------------------------------------
ImageNext ==
  \/ Render
  \/ Apply
  \/ ApplyFails
  \/ LoseStore
  \/ \E i \in Images : Publish(i)
  \/ \E i \in Images : ResourcePass(i)

\* Both engines are requeued for ever: failed passes by the rate limiter, the
\* others by the renewal of the provider tokens and the informers' resync.
ImageFairness ==
  /\ WF_imageVars(Render)
  /\ WF_imageVars(Apply)
  /\ \A i \in Images : WF_imageVars(ResourcePass(i))

ImageSpec == ImageInit /\ [][ImageNext]_imageVars /\ ImageFairness

-----------------------------------------------------------------------------
\* Properties

\* The shape of the state.
ImageTypeOK ==
  /\ resource \in [Images -> Versions]
  /\ release \in Release
  /\ sole \subseteq Fields
  /\ store \in [value : [Fields -> Versions], unsuspended : BOOLEAN]
  /\ rendered \in [pending : BOOLEAN, value : [Fields -> Versions],
                   suspend : BOOLEAN]
  /\ job \in [Images -> Job]
  /\ imageFaults \in 0..MaxImageFaults

Resolved(i) == resource[i] # 0

Carries(i) ==
  \A leaf \in Leaves : release.value[<<i, leaf>>] = Location(resource[i], leaf)

\* The two writers agree in the end, whatever they overwrote of one another
\* and however often the store was lost: the release carries the location of
\* every resolved image, and a resolved image that unsuspends the release has
\* unsuspended it for good.
Converges ==
  <>[](\A i \in Images :
         Resolved(i) => Carries(i) /\ (i \in Unsuspending => ~release.suspend))

\* "a stale digest can never outlive a tag change": a digest in the release
\* is that of the tag next to it.
NoStaleDigest ==
  \A i \in Images :
    release.value[<<i, "digest">>] \in {0, release.value[<<i, "tag">>]}

\* A release is unsuspended once its image resources have been processed.
RunsResolvedImages ==
  release.exists /\ ~release.suspend => \A i \in Images : Resolved(i)

=============================================================================
