------------------------------- MODULE Hiring -------------------------------
(***************************************************************************)
(* Vacancies and applications: HR posts, edits and deletes roles, visitors *)
(* apply to those published, HR triages the applications.                  *)
(*                                                                         *)
(* Every request reads and later writes.  All titles reduce to one base    *)
(* address: the slug is 1 for the base itself, n for base-n.  Of a row's   *)
(* columns the status stands for all that an edit may change.              *)
(***************************************************************************)
EXTENDS Naturals, FiniteSets

CONSTANTS
  Desk,          \* bound: requests in progress at once
  Vacancies,     \* bound: vacancies ever posted
  NoVacancy,
  Applications,  \* bound: applications ever sent
  NoApplication,
  MaxAttempts    \* MAX_INSERT_ATTEMPTS

ASSUME HiringAssumption ==
  /\ MaxAttempts \in Nat \ {0} /\ IsFiniteSet(Vacancies)
  /\ NoVacancy \notin Vacancies /\ NoApplication \notin Applications

VARIABLES
  vacancy,      \* job_vacancies
  application,  \* job_applications
  stage, task,  \* the requests
  refused,      \* history: a post gave up though fewer rows than its attempts had come in between
  vanished      \* history: applications that disappeared

hireVars == <<vacancy, application, stage, task, refused, vanished>>

Slugs == 1..(Cardinality(Vacancies) + 1)
VacancyRow == [status : {"none", "draft", "published", "closed", "deleted"}, slug : Slugs \cup {0}]
ApplicationRow == [status : {"none", "new", "reviewing", "hired"}, vacancy : Vacancies \cup {NoVacancy}]
NoTask == [vacancy |-> NoVacancy, application |-> NoApplication, slug |-> 0, status |-> "none", attempt |-> 0,
           beaten |-> 0]

HireTypeOK ==
  /\ vacancy \in [Vacancies -> VacancyRow]
  /\ application \in [Applications -> ApplicationRow]
  /\ stage \in [Desk -> {"idle", "slug", "insert", "save", "delete", "apply", "triage"}]
  /\ task \in [Desk -> [vacancy : Vacancies \cup {NoVacancy}, application : Applications \cup {NoApplication},
                        slug : Slugs \cup {0}, attempt : 0..MaxAttempts, beaten : 0..MaxAttempts,
                        status : {"none", "draft", "published", "closed", "reviewing", "hired"}]]
  /\ refused \in BOOLEAN /\ vanished \subseteq Applications

HireInit ==
  /\ vacancy = [v \in Vacancies |-> [status |-> "none", slug |-> 0]]
  /\ application = [a \in Applications |-> [status |-> "none", vacancy |-> NoVacancy]]
  /\ stage = [d \in Desk |-> "idle"] /\ task = [d \in Desk |-> NoTask]
  /\ refused = FALSE /\ vanished = {}

Posted(v) == vacancy[v].status \in {"draft", "published", "closed"}
Taken == {vacancy[v].slug : v \in {w \in Vacancies : Posted(w)}}

Take(d, where, t) ==
  /\ stage[d] = "idle"
  /\ stage' = [stage EXCEPT ![d] = where]
  /\ task' = [task EXCEPT ![d] = t]

Answer(d) == stage' = [stage EXCEPT ![d] = "idle"] /\ task' = [task EXCEPT ![d] = NoTask]

(* A row comes in: whoever is looking for an address has one more to avoid.*)
Beaten(d) ==
  /\ stage' = [stage EXCEPT ![d] = "idle"]
  /\ task' = [e \in Desk |->
       IF e = d THEN NoTask
       ELSE IF stage[e] \in {"slug", "insert"} /\ task[e].beaten < MaxAttempts
            THEN [task[e] EXCEPT !.beaten = @ + 1] ELSE task[e]]

-----------------------------------------------------------------------------
(* Posting.                                                                *)

createVacancy(d) ==
  /\ \E v \in Vacancies, s \in {"draft", "published"} :
       /\ vacancy[v].status = "none" /\ \A e \in Desk : task[e].vacancy # v
       /\ Take(d, "slug", [NoTask EXCEPT !.vacancy = v, !.status = s, !.attempt = 1])
  /\ UNCHANGED <<vacancy, application, refused, vanished>>

freeSlug(d) ==
  /\ stage[d] = "slug"
  /\ task' = [task EXCEPT ![d].slug = CHOOSE n \in Slugs \ Taken : \A m \in Slugs \ Taken : n <= m]
  /\ stage' = [stage EXCEPT ![d] = "insert"]
  /\ UNCHANGED <<vacancy, application, refused, vanished>>

(* One insert at the address found.                                        *)
InsertStep(d, again) ==
  LET t == task[d]
  IN  /\ stage[d] = "insert"
      /\ IF t.slug \in Taken
         THEN /\ refused' = (refused \/ (t.attempt = MaxAttempts /\ t.beaten < MaxAttempts))
              /\ IF t.attempt = MaxAttempts THEN Answer(d)
                 ELSE /\ stage' = [stage EXCEPT ![d] = again]
                      /\ task' = [task EXCEPT ![d].attempt = @ + 1]
              /\ UNCHANGED vacancy
         ELSE /\ vacancy' = [vacancy EXCEPT ![t.vacancy] = [status |-> t.status, slug |-> t.slug]]
              /\ Beaten(d)
              /\ UNCHANGED refused
      /\ UNCHANGED <<application, vanished>>

(* Mutant: the same address is tried again.                                *)
InsertStubborn(d) == InsertStep(d, "insert")

(* The unique index decides; who loses looks for another address, a few    *)
(* times.                                                                  *)
InsertVacancy(d) == InsertStep(d, "slug")

-----------------------------------------------------------------------------
(* Editing and deleting.                                                   *)

updateVacancy(d) ==
  /\ \E v \in Vacancies, s \in {"published", "closed"} :
       /\ Posted(v)
       /\ Take(d, "save", [NoTask EXCEPT !.vacancy = v, !.status = s, !.slug = vacancy[v].slug])
  /\ UNCHANGED <<vacancy, application, refused, vanished>>

(* Mutant: a rename moves the role to the first free address.              *)
SaveVacancyRenamed(d) ==
  LET t == task[d]
  IN  /\ stage[d] = "save"
      /\ vacancy' = [vacancy EXCEPT ![t.vacancy] =
           [status |-> t.status, slug |-> CHOOSE n \in Slugs \ Taken : \A m \in Slugs \ Taken : n <= m]]
      /\ Answer(d)
      /\ UNCHANGED <<application, refused, vanished>>

(* The row as it was read, with the change; a row deleted meanwhile is     *)
(* inserted again, unless its address is taken.                            *)
SaveVacancy(d) ==
  LET t == task[d]
      clash == vacancy[t.vacancy].status = "deleted" /\ t.slug \in Taken
  IN  /\ stage[d] = "save"
      /\ vacancy' = IF clash THEN vacancy
                    ELSE [vacancy EXCEPT ![t.vacancy] = [status |-> t.status, slug |-> t.slug]]
      /\ IF clash \/ Posted(t.vacancy) THEN Answer(d) ELSE Beaten(d)
      /\ UNCHANGED <<application, refused, vanished>>

(* Nobody has applied, at the time of the count.                           *)
deleteVacancy(d) ==
  /\ \E v \in Vacancies :
       /\ Posted(v) /\ ~\E a \in Applications : application[a].status # "none" /\ application[a].vacancy = v
       /\ Take(d, "delete", [NoTask EXCEPT !.vacancy = v])
  /\ UNCHANGED <<vacancy, application, refused, vanished>>

(* Applications go with the row, by cascade.                               *)
DeleteVacancyRow(d) ==
  LET v == task[d].vacancy
      gone == {a \in Applications : application[a].vacancy = v}
  IN  /\ stage[d] = "delete"
      /\ vacancy' = IF Posted(v) THEN [vacancy EXCEPT ![v].status = "deleted"] ELSE vacancy
      /\ application' = [a \in Applications |->
           IF a \in gone THEN [status |-> "none", vacancy |-> NoVacancy] ELSE application[a]]
      /\ vanished' = vanished \cup gone
      /\ Answer(d)
      /\ UNCHANGED refused

-----------------------------------------------------------------------------
(* Applications.                                                           *)

apply(d) ==
  /\ \E v \in Vacancies, a \in Applications :
       /\ vacancy[v].status = "published"
       /\ application[a].status = "none" /\ a \notin vanished /\ \A e \in Desk : task[e].application # a
       /\ Take(d, "apply", [NoTask EXCEPT !.vacancy = v, !.application = a])
  /\ UNCHANGED <<vacancy, application, refused, vanished>>

(* Without its vacancy the foreign key refuses the row.                    *)
SaveApplication(d) ==
  LET t == task[d]
  IN  /\ stage[d] = "apply"
      /\ application' = IF Posted(t.vacancy)
                        THEN [application EXCEPT ![t.application] = [status |-> "new", vacancy |-> t.vacancy]]
                        ELSE application
      /\ Answer(d)
      /\ UNCHANGED <<vacancy, refused, vanished>>

updateApplication(d) ==
  /\ \E a \in Applications, s \in {"reviewing", "hired"} :
       /\ application[a].status # "none"
       /\ Take(d, "triage", [NoTask EXCEPT !.application = a, !.vacancy = application[a].vacancy, !.status = s])
  /\ UNCHANGED <<vacancy, application, refused, vanished>>

SaveTriage(d) ==
  LET t == task[d]
  IN  /\ stage[d] = "triage"
      /\ application' = IF Posted(t.vacancy)
                        THEN [application EXCEPT ![t.application] = [status |-> t.status, vacancy |-> t.vacancy]]
                        ELSE application
      /\ Answer(d)
      /\ UNCHANGED <<vacancy, refused, vanished>>

HireNext ==
  \E d \in Desk :
    \/ createVacancy(d) \/ freeSlug(d) \/ InsertVacancy(d)
    \/ updateVacancy(d) \/ SaveVacancy(d) \/ deleteVacancy(d) \/ DeleteVacancyRow(d)
    \/ apply(d) \/ SaveApplication(d) \/ updateApplication(d) \/ SaveTriage(d)

HireSpec == HireInit /\ [][HireNext]_hireVars

-----------------------------------------------------------------------------
(* The properties.                                                         *)

(* "On a collision, look again rather than handing back a 500": a post     *)
(* gives up only when another row came in during each of its attempts.     *)
PostsSucceed == ~refused

(* "Quietly moving a posted role would break every link": a posted role    *)
(* keeps its address, and no other role is found under it.                 *)
AddressStays ==
  [][\A v \in Vacancies : Posted(v) /\ Posted(v)' =>
       /\ vacancy'[v].slug = vacancy[v].slug
       /\ \A w \in Vacancies \ {v} : Posted(w)' => vacancy'[w].slug # vacancy[v].slug]_hireVars

=============================================================================
