------------------------------ MODULE Workplace ------------------------------
(***************************************************************************)
(* What the administrator sets up and an employee is then offered: custom  *)
(* roles, work locations, settings, work schedules and one checklist       *)
(* template with their links, and the shift the employee starts on them.   *)
(*                                                                         *)
(* Deleting a row takes the links to it along (ON DELETE CASCADE).  The    *)
(* requests that count rows to decide about the settings are two steps,    *)
(* what they read and their commit.  The others are one: what they check   *)
(* foreign keys keep, or may be undone right after (a schedule is paused   *)
(* once it is linked).  A schedule is startable at some moments (module    *)
(* ScheduleWindow), so its window is a free choice here.                   *)
(***************************************************************************)
EXTENDS Integers, FiniteSets

CONSTANTS Handlers,    \* requests of administrators that run at one time
          Roles,       \* custom roles
          Locations,   \* work locations
          Schedules,   \* work schedules
          Order,       \* the place of each location by distance, created_at and id
          MaxEdits,    \* bound on the administrators' requests
          None         \* no row, or a column that is NULL

VARIABLES roles,       \* the roles that exist
          locations,   \* the locations that exist
          settings,    \* geo_check_enabled, require_work_location, require_schedule
          schedules,   \* the row of each schedule with its links, or None
          template,    \* the checklist template with its links
          member,      \* the membership with its overrides, or None
          pending,     \* what a request has read and will write when it commits
          started,     \* the open shift of the employee with its checklist, or None
          edited       \* the requests made

\* A row is not the value of a column that is NULL, and no two locations have the same
\* place (_sort_key ends with the id).
WorkplaceAssumption ==
    /\ None \notin Locations \cup Schedules
    /\ None \notin [paused : BOOLEAN, roles : SUBSET Roles, locations : SUBSET Locations]
    /\ None \notin [deleted : BOOLEAN, roles : SUBSET Roles, locations : SUBSET Locations,
                    schedules : SUBSET Schedules]
    /\ Order \in [Locations -> Nat]
    /\ \A k, l \in Locations : Order[k] = Order[l] => k = l
    /\ MaxEdits \in Nat

organization == <<roles, locations, settings, schedules, template, member, pending>>
workplaceVars == <<organization, started, edited>>

(***************************************************************************)
(* Rows                                                                    *)
(***************************************************************************)

Schedule == [paused |-> FALSE, roles |-> {}, locations |-> {}]

Template == [deleted |-> FALSE, roles |-> {}, locations |-> {}, schedules |-> {}]

Existing == {s \in Schedules : schedules[s] # None}

Active == {s \in Existing : ~schedules[s].paused}

Overrides == {None, "add", "remove"}

Rest == [op |-> "rest"]

\* The row of a location is locked from its DELETE to the end of the transaction, and
\* whatever refers to it waits.
Doomed == {pending[h].location : h \in {g \in Handlers : pending[g].op = "delete"}}

Linkable == locations \ Doomed

Joined == [role |-> None, shift |-> [s \in Schedules |-> None], list |-> None]

Init ==
    /\ roles = Roles
    /\ \E l \in Locations : locations = {l}
    /\ settings = [geo |-> FALSE, location |-> FALSE, schedule |-> FALSE]
    /\ \E s \in Schedules : schedules = [r \in Schedules |-> IF r = s THEN Schedule ELSE None]
    /\ template = Template
    /\ member = Joined
    /\ pending = [h \in Handlers |-> Rest]
    /\ started = None
    /\ edited = 0

Edits ==
    /\ edited < MaxEdits
    /\ edited' = edited + 1

(***************************************************************************)
(* What is effective                                                       *)
(***************************************************************************)

MatchesLocation(links, at) == links = {} \/ at \in links

MatchesRole(links) == links = {} \/ member.role \in links

\* A schedule without roles is for everybody; an override of the member decides
\* first, and the location last.
EffectiveSchedules(at) ==
    {s \in Active :
        /\ \/ member.shift[s] = "add"
           \/ member.shift[s] = None /\ MatchesRole(schedules[s].roles)
        /\ MatchesLocation(schedules[s].locations, at)}

\* A template without any link or override is for nobody.
TemplateApplies(at, schedule, strict) ==
    /\ ~template.deleted
    /\ template.roles \cup template.locations \cup template.schedules # {} \/ member.list = "add"
    /\ member.list # "remove"
    /\ MatchesRole(template.roles)
    /\ at = None \/ MatchesLocation(template.locations, at)
    /\ \/ template.schedules = {} \/ schedule \in template.schedules
       \/ schedule = None /\ ~strict

\* Mutant: the preview is strict about the schedule, too.
PreviewsStrictly(at, schedule) == TemplateApplies(at, schedule, TRUE)

\* get_effective_templates
PreviewsTemplate(at, schedule) == TemplateApplies(at, schedule, FALSE)

\* create_instances_for_shift
IssuesTemplate(at, schedule) ==
    TemplateApplies(at, schedule, TRUE) /\ MatchesLocation(template.locations, at)

(***************************************************************************)
(* Starting a shift                                                        *)
(***************************************************************************)

\* What the application sends: the location it chose, the locations whose radius the
\* coordinates are in (None: no coordinates), and whether there is a photo instead.
Asks ==
    {a \in [choice : Locations \cup {None}, near : (SUBSET locations) \cup {None}, photo : BOOLEAN] :
        a.photo => a.near = None}

\* resolve_nearest_work_location, which sorts by _sort_key.
Nearest(near) == {l \in near : \A k \in near : Order[l] <= Order[k]}

\* _resolve_org_shift_start: the location of the shift, or an error (no element).
StartLocation(ask) ==
    IF settings.geo THEN
        IF ask.photo THEN {ask.choice} \cap locations
        ELSE IF ask.near = None THEN {}
        ELSE IF ask.choice # None THEN {ask.choice} \cap ask.near
        ELSE Nearest(ask.near)
    ELSE IF ask.photo THEN {}
    ELSE IF ask.choice # None THEN {ask.choice} \cap locations
    ELSE IF settings.location THEN {} ELSE {None}

\* Mutant: the coordinates decide whether geo_check_enabled or not.
ListedNear(ask) ==
    IF ask.choice # None THEN {ask.choice} \cap locations
    ELSE IF ask.near \notin {None, {}} THEN Nearest(ask.near)
    ELSE {None}

\* get_my_schedules: the location of the list, or an error.
ListedLocation(ask) ==
    IF ask.choice # None THEN {ask.choice} \cap locations
    ELSE IF settings.geo /\ ask.near \notin {None, {}} THEN Nearest(ask.near)
    ELSE {None}

\* The schedules of the list with can_start_now, for the windows they have by now.
CanStartNow(at, windows) == {s \in EffectiveSchedules(at) : windows[s] = "open"}

\* _resolve_org_shift_schedule: the schedule of the shift, None, or an error (no element).
StartSchedule(at, requested, windows) ==
    LET effective == EffectiveSchedules(at)
        startable == {s \in effective : windows[s] = "open"}
        without   == IF settings.schedule THEN {} ELSE {None}
    IN  IF requested = None
        THEN IF Cardinality(startable) = 1 THEN startable ELSE without
        ELSE IF requested \notin effective \/ windows[requested] = "closed" THEN {}
        ELSE IF windows[requested] = "early" THEN without
        ELSE {requested}

Windows == [Existing -> {"closed", "early", "open"}]

StartShift(ask, requested, windows) ==
    /\ member # None /\ started = None
    /\ \E at \in StartLocation(ask) \ Doomed : \E s \in StartSchedule(at, requested, windows) :
        started' = [location |-> at, schedule |-> s, issued |-> IssuesTemplate(at, s)]
    /\ UNCHANGED <<organization, edited>>

FinishShift ==
    /\ started # None
    /\ started' = None
    /\ UNCHANGED <<organization, edited>>

(***************************************************************************)
(* Roles, locations and settings                                           *)
(***************************************************************************)

CreateRole(r) ==
    /\ Edits /\ r \notin roles
    /\ roles' = roles \cup {r}
    /\ UNCHANGED <<locations, settings, schedules, template, member, started, pending>>

WithoutRole(row, r) == IF row = None THEN None ELSE [row EXCEPT !.roles = @ \ {r}]

DeleteRole(r) ==
    /\ Edits /\ r \in roles
    /\ roles' = roles \ {r}
    /\ schedules' = [s \in Schedules |-> WithoutRole(schedules[s], r)]
    /\ template' = WithoutRole(template, r)
    /\ member' = IF member # None /\ member.role = r THEN [member EXCEPT !.role = None] ELSE member
    /\ UNCHANGED <<locations, settings, started, pending>>

CreateWorkLocation(l) ==
    /\ Edits /\ l \notin locations
    /\ locations' = locations \cup {l}
    /\ UNCHANGED <<roles, settings, schedules, template, member, started, pending>>

WithoutLocation(row, l) == IF row = None THEN None ELSE [row EXCEPT !.locations = @ \ {l}]

\* The flush writes the columns that differ from what was loaded.
Flushed(seen, new) ==
    [geo |-> IF new.geo # seen.geo THEN new.geo ELSE settings.geo,
     location |-> IF new.location # seen.location THEN new.location ELSE settings.location,
     schedule |-> IF new.schedule # seen.schedule THEN new.schedule ELSE settings.schedule]

\* The DELETE, the count of what remains, and the settings when nothing does; each read
\* sees what is committed by then.
LoadForDeleteWorkLocation(h, l) ==
    /\ Edits /\ pending[h] = Rest
    /\ l \in Linkable
    /\ pending' = [pending EXCEPT ![h] = [op |-> "delete", location |-> l,
                                          last |-> locations = {l}, seen |-> settings]]
    /\ UNCHANGED <<roles, locations, settings, schedules, template, member, started>>

DeleteWorkLocation(h) ==
    LET j == pending[h]
        l == j.location
    IN
    /\ j.op = "delete"
    /\ locations' = locations \ {l}
    /\ settings' = IF j.last THEN Flushed(j.seen, [j.seen EXCEPT !.geo = FALSE, !.location = FALSE])
                   ELSE settings
    /\ schedules' = [s \in Schedules |-> WithoutLocation(schedules[s], l)]
    /\ template' = WithoutLocation(template, l)
    /\ started' = IF started # None /\ started.location = l THEN [started EXCEPT !.location = None]
                  ELSE started
    /\ pending' = [pending EXCEPT ![h] = Rest]
    /\ UNCHANGED <<roles, member, edited>>

LoadForUpdateSettings(h, new) ==
    /\ Edits /\ pending[h] = Rest
    /\ new.geo /\ ~settings.geo => locations # {}
    /\ new.location /\ ~settings.location => locations # {}
    /\ new.schedule /\ ~settings.schedule => Active # {}
    /\ pending' = [pending EXCEPT ![h] = [op |-> "settings", new |-> new, seen |-> settings]]
    /\ UNCHANGED <<roles, locations, settings, schedules, template, member, started>>

UpdateSettings(h) ==
    /\ pending[h].op = "settings"
    /\ settings' = Flushed(pending[h].seen, pending[h].new)
    /\ pending' = [pending EXCEPT ![h] = Rest]
    /\ UNCHANGED <<roles, locations, schedules, template, member, started, edited>>

Dies(h) ==
    /\ pending[h] # Rest
    /\ pending' = [pending EXCEPT ![h] = Rest]
    /\ UNCHANGED <<roles, locations, settings, schedules, template, member, started, edited>>

(***************************************************************************)
(* Schedules                                                               *)
(***************************************************************************)

CreateSchedule(s) ==
    /\ Edits /\ s \notin Existing
    /\ schedules' = [schedules EXCEPT ![s] = Schedule]
    /\ UNCHANGED <<roles, locations, settings, template, member, started, pending>>

\* The pause, the roles or the locations of a schedule.
EditSchedule(s) ==
    /\ Edits /\ s \in Existing
    /\ \/ \E paused \in BOOLEAN : schedules' = [schedules EXCEPT ![s].paused = paused]
       \/ \E links \in SUBSET roles : schedules' = [schedules EXCEPT ![s].roles = links]
       \/ \E links \in SUBSET Linkable : schedules' = [schedules EXCEPT ![s].locations = links]
    /\ UNCHANGED <<roles, locations, settings, template, member, started, pending>>

\* require_schedule stays as it is, even when no schedule is left.
DeleteSchedule(s) ==
    /\ Edits /\ s \in Existing
    /\ schedules' = [schedules EXCEPT ![s] = None]
    /\ template' = [template EXCEPT !.schedules = @ \ {s}]
    /\ member' = IF member = None THEN None ELSE [member EXCEPT !.shift[s] = None]
    /\ started' = IF started # None /\ started.schedule = s THEN [started EXCEPT !.schedule = None]
                  ELSE started
    /\ UNCHANGED <<roles, locations, settings, pending>>

(***************************************************************************)
(* The checklist template                                                  *)
(***************************************************************************)

DeleteTemplate ==
    /\ Edits /\ ~template.deleted
    /\ template' = [template EXCEPT !.deleted = TRUE]
    /\ UNCHANGED <<roles, locations, settings, schedules, member, started, pending>>

RestoreTemplate ==
    /\ Edits /\ template.deleted
    /\ template' = [template EXCEPT !.deleted = FALSE]
    /\ UNCHANGED <<roles, locations, settings, schedules, member, started, pending>>

\* A deleted template can be linked, too; a schedule that is paused cannot.
LinkTemplate ==
    /\ Edits
    /\ \/ \E links \in SUBSET roles : template' = [template EXCEPT !.roles = links]
       \/ \E links \in SUBSET Linkable : template' = [template EXCEPT !.locations = links]
       \/ \E links \in SUBSET Active : template' = [template EXCEPT !.schedules = links]
    /\ UNCHANGED <<roles, locations, settings, schedules, member, started, pending>>

(***************************************************************************)
(* The member                                                              *)
(***************************************************************************)

AssignRoleToMember(r) ==
    /\ Edits /\ member # None
    /\ r \in roles \cup {None}
    /\ member' = [member EXCEPT !.role = r]
    /\ UNCHANGED <<roles, locations, settings, schedules, template, started, pending>>

\* set_member_overrides and upsert_override, of which only the latter refuses a
\* template that is deleted.
SetMemberOverride(override) ==
    /\ Edits /\ member # None
    /\ member' = [member EXCEPT !.list = override]
    /\ UNCHANGED <<roles, locations, settings, schedules, template, started, pending>>

SetMemberScheduleOverrides(overrides) ==
    /\ Edits /\ member # None
    /\ \A s \in Schedules : overrides[s] # None => s \in Existing
    /\ member' = [member EXCEPT !.shift = overrides]
    /\ UNCHANGED <<roles, locations, settings, schedules, template, started, pending>>

RemoveMember ==
    /\ Edits /\ member # None
    /\ member' = None
    /\ UNCHANGED <<roles, locations, settings, schedules, template, started, pending>>

JoinByInvite ==
    /\ Edits /\ member = None
    /\ member' = Joined
    /\ UNCHANGED <<roles, locations, settings, schedules, template, started, pending>>

(***************************************************************************)
(* The specification                                                       *)
(***************************************************************************)

Settings == [geo : BOOLEAN, location : BOOLEAN, schedule : BOOLEAN]

ManageOrganization ==
    \/ \E r \in Roles : CreateRole(r) \/ DeleteRole(r)
    \/ \E l \in Locations : CreateWorkLocation(l)
    \/ \E h \in Handlers :
        \/ \E l \in Locations : LoadForDeleteWorkLocation(h, l)
        \/ \E new \in Settings : LoadForUpdateSettings(h, new)
        \/ DeleteWorkLocation(h) \/ UpdateSettings(h) \/ Dies(h)
    \/ \E r \in Roles \cup {None} : AssignRoleToMember(r)
    \/ RemoveMember \/ JoinByInvite

ManageSchedules ==
    \/ \E s \in Schedules : CreateSchedule(s) \/ EditSchedule(s) \/ DeleteSchedule(s)
    \/ \E overrides \in [Schedules -> Overrides] : SetMemberScheduleOverrides(overrides)

ManageChecklist ==
    \/ DeleteTemplate \/ RestoreTemplate \/ LinkTemplate
    \/ \E override \in Overrides : SetMemberOverride(override)

Next ==
    \/ ManageOrganization
    \/ ManageSchedules
    \/ ManageChecklist
    \/ \E ask \in Asks, requested \in Existing \cup {None}, windows \in Windows :
        StartShift(ask, requested, windows)
    \/ FinishShift

Spec == Init /\ [][Next]_workplaceVars

(***************************************************************************)
(* Properties                                                              *)
(***************************************************************************)

Pending ==
    [op : {"rest"}]
    \cup [op : {"delete"}, location : Locations, last : BOOLEAN, seen : Settings]
    \cup [op : {"settings"}, new : Settings, seen : Settings]

\* Type invariant: no link, override, role or request that has its lock points to a row
\* that was deleted.
TypeOK ==
    /\ pending \in [Handlers -> Pending] /\ Doomed \subseteq locations
    /\ roles \subseteq Roles /\ locations \subseteq Locations /\ settings \in Settings
    /\ \A s \in Existing : schedules[s] \in [paused : BOOLEAN, roles : SUBSET roles, locations : SUBSET locations]
    /\ template \in [deleted : BOOLEAN, roles : SUBSET roles, locations : SUBSET locations,
                     schedules : SUBSET Existing]
    /\ member # None =>
        /\ member.role \in roles \cup {None} /\ member.list \in Overrides
        /\ \A s \in Schedules : member.shift[s] \in Overrides /\ (member.shift[s] # None => s \in Existing)
    /\ started # None =>
        started \in [location : locations \cup {None}, schedule : Existing \cup {None}, issued : BOOLEAN]
    /\ edited \in 0 .. MaxEdits

\* What the employee sees before the start is what the start accepts: when it gets to
\* the same location, it pins exactly the schedules that my-schedules lists there with
\* can_start_now, if they are asked for, and no other one by itself (S1 of
\* is_schedule_startable).
ListedIsStartable ==
    member # None =>
        \A ask \in Asks, windows \in Windows : \A at \in StartLocation(ask) :
            LET listed == UNION {CanStartNow(l, windows) : l \in ListedLocation(ask)} IN
            /\ \A s \in Existing : (s \in StartSchedule(at, s, windows)) = (s \in listed)
            /\ StartSchedule(at, None, windows) \ {None} \subseteq listed

\* What is issued with a shift was in the previews of the member's checklists: in the
\* one of its location and schedule, which lists nothing else, and in the wider ones
\* that leave the schedule, or both, open (get_effective_templates).
PreviewCoversIssued ==
    member # None =>
        \A at \in locations \cup {None}, s \in Existing \cup {None} :
            /\ IssuesTemplate(at, s) =>
                PreviewsTemplate(at, s) /\ PreviewsTemplate(at, None) /\ PreviewsTemplate(None, None)
            /\ (at # None /\ s # None) => PreviewsTemplate(at, s) = IssuesTemplate(at, s)

=============================================================================
