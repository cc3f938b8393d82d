------------------------------- MODULE SyncWaves -------------------------------
(***************************************************************************)
(* calculateSyncWaves of platform-mesh-operator: the ArgoCD waves of the   *)
(* services, computed in rounds over the services until nothing changes.   *)
(* Go visits a map in any order, but once: every round goes through the    *)
(* names in the order the first pass collected them in.                    *)
(***************************************************************************)
EXTENDS Integers, FiniteSetsExt

CONSTANTS
  Service,      \* the services of a profile
  UserWaves     \* the waves that users configure

ASSUME WavesAssumption == IsFiniteSet(Service) /\ UserWaves \subseteq Int

Services == Cardinality(Service)

VARIABLES
  dependencies, \* the names each service depends on, as far as they are services
  user,         \* userConfiguredSyncWaves: a set of at most one wave
  serviceNames, \* the services in the order of the map
  waves,        \* syncWaves
  changed,      \* whether this round changed a wave
  position,     \* of the next service of the round
  rounds,       \* rounds done
  finished      \* the waves are final

waveVars == <<dependencies, user, serviceNames, waves, changed, position, rounds, finished>>

(* maxIterations                                                           *)
MaxRounds == Services + 1

Orders == {names \in [1..Services -> Service] : \A s \in Service : \E i \in 1..Services : names[i] = s}

WavesTypeOK ==
  /\ dependencies \in [Service -> SUBSET Service]
  /\ user \in [Service -> {{}} \cup {{w} : w \in UserWaves}]
  /\ serviceNames \in Orders
  /\ waves \in [Service -> Int]
  /\ changed \in BOOLEAN
  /\ position \in 1..Services + 1
  /\ rounds \in 0..MaxRounds
  /\ finished \in BOOLEAN

(* A user's wave, which is kept, or 0.                                     *)
InitialWave(s) == IF user[s] = {} THEN 0 ELSE CHOOSE w \in user[s] : TRUE

WavesInit ==
  /\ dependencies \in [Service -> SUBSET Service]
  /\ user \in [Service -> {{}} \cup {{w} : w \in UserWaves}]
  /\ serviceNames \in Orders
  /\ waves = [s \in Service |-> InitialWave(s)]
  /\ changed = FALSE /\ position = 1 /\ rounds = 0 /\ finished = FALSE

MutNeedsAll(s) == Min({waves[d] : d \in dependencies[s]}) + 1

(* One more than the latest dependency, whose wave counts from -1 up.      *)
NewWave(s) == Max({-1} \cup {waves[d] : d \in dependencies[s]}) + 1

Outdated(s) == user[s] = {} /\ dependencies[s] # {} /\ waves[s] < NewWave(s)

(* One service of a round.                                                 *)
Visit(s) ==
  /\ ~finished /\ position <= Services /\ s = serviceNames[position]
  /\ IF Outdated(s)
     THEN waves' = [waves EXCEPT ![s] = NewWave(s)] /\ changed' = TRUE
     ELSE UNCHANGED <<waves, changed>>
  /\ position' = position + 1
  /\ UNCHANGED <<dependencies, user, serviceNames, rounds, finished>>

(* The loop ends when a round changed nothing and after maxIterations.     *)
EndRound ==
  /\ ~finished /\ position = Services + 1
  /\ position' = 1 /\ changed' = FALSE /\ rounds' = rounds + 1
  /\ finished' = (~changed \/ rounds' = MaxRounds)
  /\ UNCHANGED <<dependencies, user, serviceNames, waves>>

WavesNext == EndRound \/ \E s \in Service : Visit(s)

WavesSpec == WavesInit /\ [][WavesNext]_waveVars

-------------------------------------------------------------------------------
(* Services on which s depends, over any number of steps: what every set   *)
(* has that contains the dependencies of s and of its own members.         *)
Closed(C) == \A d \in C : dependencies[d] \subseteq C
Below(s) == {d \in Service : \A C \in SUBSET Service :
                               dependencies[s] \subseteq C /\ Closed(C) => d \in C}

Sound(s) == \A d \in Below(s) \cup {s} : d \notin Below(d)

(* A service that neither is in a cycle nor depends on one gets the wave   *)
(* the comment of calculateSyncWaves promises, in whatever order Go visits *)
(* the map and whatever cycles the other services are in: the user's, or   *)
(* one more than the latest of its dependencies, or 0.                     *)
WavesFollowDependencies ==
  finished => \A s \in Service :
    Sound(s) => waves[s] = IF user[s] # {} THEN InitialWave(s)
                           ELSE Max({0} \cup {waves[d] + 1 : d \in dependencies[s]})
===============================================================================
