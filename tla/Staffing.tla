------------------------------ MODULE Staffing ------------------------------
(***************************************************************************)
(* create_staffing_crew: the table bartenders_disponibles and the crews    *)
(* that assign teams from it to events.                                    *)
(*                                                                         *)
(* A crew reads who is available in one request, chooses, and then marks   *)
(* the chosen ones one request at a time; crews of several events          *)
(* interleave between requests, and any request can fail.  Nothing makes a *)
(* bartender available again.                                              *)
(***************************************************************************)
EXTENDS Naturals, FiniteSets

CONSTANTS
    Crews,        \* events whose team is assigned, one crew each
    Bartenders,   \* rows of the table
    PaxPerBartender, HeadPax,   \* 40 and 100 in the code
    Guests,       \* pax of the events
    Ratings,      \* values of calificacion
    MaxStaffFaults   \* bound on failed requests

ASSUME StaffingAssumption ==
    /\ PaxPerBartender \in Nat \ {0} /\ HeadPax \in Nat
    /\ IsFiniteSet(Bartenders)
    /\ Guests \subseteq Nat \ {0} /\ Ratings \subseteq Nat
    /\ MaxStaffFaults \in Nat

VARIABLES
    rating, premium, head,   \* columns of the table
    disponible,   \* bartenders with disponible = TRUE
    pax, menu,    \* of each crew's event
    pc,           \* what each crew is doing
    team,         \* asignados
    left,         \* of them, the ones to mark
    staffFaults,  \* requests that failed
    overlapped    \* history: a crew read while another one was marking

staffVars == <<rating, premium, head, disponible, pax, menu, pc, team, left, staffFaults, overlapped>>

StaffTypeOK ==
    /\ rating \in [Bartenders -> Ratings]
    /\ premium \subseteq Bartenders /\ head \subseteq Bartenders
    /\ disponible \subseteq Bartenders
    /\ pax \in [Crews -> Guests] /\ menu \in [Crews -> {"premium", "other"}]
    /\ pc \in [Crews -> {"idle", "marking", "created", "raised"}]
    /\ team \in [Crews -> SUBSET Bartenders] /\ left \in [Crews -> SUBSET Bartenders]
    /\ \A c \in Crews : left[c] \subseteq team[c]
    /\ \A c \in Crews : pc[c] \in {"idle", "created"} => left[c] = {}
    /\ staffFaults \in 0..MaxStaffFaults
    /\ overlapped \in BOOLEAN

StaffInit ==
    /\ rating \in [Bartenders -> Ratings]
    /\ premium \in SUBSET Bartenders /\ head \in SUBSET Bartenders
    /\ disponible \in SUBSET Bartenders
    /\ pax \in [Crews -> Guests] /\ menu \in [Crews -> {"premium", "other"}]
    /\ pc = [c \in Crews |-> "idle"]
    /\ team = [c \in Crews |-> {}]
    /\ left = [c \in Crews |-> {}]
    /\ staffFaults = 0
    /\ overlapped = FALSE

-----------------------------------------------------------------------------
\* _seleccionar_bartenders

Needed(n) == (n + PaxPerBartender - 1) \div PaxPerBartender

\* prioridad: for a premium menu, the specialists first; then the rating.
Specialist(m, b) == m = "premium" /\ b \in premium
Before(m, a, b) ==
    \/ Specialist(m, a) /\ ~Specialist(m, b)
    \/ (Specialist(m, a) <=> Specialist(m, b)) /\ rating[a] > rating[b]

\* sorted() puts a and b in the order the database gave them when neither goes
\* before the other: the first of a set is any of the best.
Firsts(m, S) == {b \in S : \A a \in S : ~Before(m, a, b)}

\* The first n of S, or all of them when there are fewer.
Prefixes(m, S, n) ==
    {T \in SUBSET S : /\ Cardinality(T) = IF n < Cardinality(S) THEN n ELSE Cardinality(S)
                      /\ \A t \in T, b \in S \ T : ~Before(m, b, t)}

\* A plausible slip: the place of the head is not taken from the team's.
Teams_HeadExtra(c, S) ==
    LET n     == Needed(pax[c])
        heads == IF pax[c] > HeadPax THEN S \intersect head ELSE {}
    IN  IF heads = {} THEN Prefixes(menu[c], S, n)
        ELSE UNION {{{h} \union T : T \in Prefixes(menu[c], S \ {h}, n)}
                        : h \in Firsts(menu[c], heads)}

\* The teams it may choose from the available ones: the best head first, when one
\* is needed and there is one.
Teams(c, S) ==
    LET n     == Needed(pax[c])
        heads == IF pax[c] > HeadPax THEN S \intersect head ELSE {}
    IN  IF heads = {} THEN Prefixes(menu[c], S, n)
        ELSE UNION {{{h} \union T : T \in Prefixes(menu[c], S \ {h}, n - 1)}
                        : h \in Firsts(menu[c], heads)}

-----------------------------------------------------------------------------

Raise(c) == pc' = [pc EXCEPT ![c] = "raised"]

\* The table is read and the team chosen; too few bartenders are an error.
Select(c) ==
    /\ pc[c] = "idle"
    /\ \E T \in Teams(c, disponible) :
          IF disponible = {} \/ Cardinality(T) < Needed(pax[c])
          THEN Raise(c) /\ UNCHANGED <<team, left>>
          ELSE /\ pc' = [pc EXCEPT ![c] = "marking"]
               /\ team' = [team EXCEPT ![c] = T]
               /\ left' = [left EXCEPT ![c] = T]
    /\ overlapped' = (overlapped \/ \E d \in Crews : pc[d] = "marking")
    /\ UNCHANGED <<rating, premium, head, disponible, pax, menu, staffFaults>>

\* A plausible slip: only one row is updated.
Mark_First(c) ==
    /\ pc[c] = "marking"
    /\ \E b \in left[c] : disponible' = disponible \ {b}
    /\ left' = [left EXCEPT ![c] = {}]
    /\ UNCHANGED <<rating, premium, head, pax, menu, pc, team, staffFaults, overlapped>>

\* One of the team is marked, whatever the row says by now.
Mark(c) ==
    /\ pc[c] = "marking"
    /\ \E b \in left[c] :
          /\ disponible' = disponible \ {b}
          /\ left' = [left EXCEPT ![c] = @ \ {b}]
    /\ UNCHANGED <<rating, premium, head, pax, menu, pc, team, staffFaults, overlapped>>

\* A plausible slip: the crew is created before the rows are updated.
Create_Early(c) ==
    /\ pc[c] = "marking"
    /\ pc' = [pc EXCEPT ![c] = "created"]
    /\ UNCHANGED <<rating, premium, head, disponible, pax, menu, team, left, staffFaults, overlapped>>

Create(c) ==
    /\ pc[c] = "marking" /\ left[c] = {}
    /\ pc' = [pc EXCEPT ![c] = "created"]
    /\ UNCHANGED <<rating, premium, head, disponible, pax, menu, team, left, staffFaults, overlapped>>

\* A plausible slip: the crew of which an update fails is created nonetheless.
RequestFails_Goes(c) ==
    /\ staffFaults < MaxStaffFaults /\ staffFaults' = staffFaults + 1
    /\ \/ pc[c] = "idle" /\ Raise(c)
       \/ pc[c] = "marking" /\ left[c] # {} /\ pc' = [pc EXCEPT ![c] = "created"]
    /\ UNCHANGED <<rating, premium, head, disponible, pax, menu, team, left, overlapped>>

\* A request fails: the error leaves the function, and those marked stay marked.
RequestFails(c) ==
    /\ staffFaults < MaxStaffFaults /\ staffFaults' = staffFaults + 1
    /\ \/ pc[c] = "idle" /\ UNCHANGED disponible
       \/ /\ pc[c] = "marking"
          /\ \E b \in left[c] : disponible' \in {disponible, disponible \ {b}}
    /\ Raise(c)
    /\ UNCHANGED <<rating, premium, head, pax, menu, team, left, overlapped>>

StaffNext == \E c \in Crews : Select(c) \/ Mark(c) \/ Create(c) \/ RequestFails(c)

StaffSpec == StaffInit /\ [][StaffNext]_staffVars

-----------------------------------------------------------------------------

\* The team of a crew that was created is marked: nobody finds one of it
\* available.  create_staffing_crew.
TeamMarked == \A c \in Crews : pc[c] = "created" => team[c] \intersect disponible = {}

\* A chosen team has one bartender for every PaxPerBartender guests, no more, and
\* any available bartender left out is a worse choice than those taken, except than
\* the head; a large event has a head when one is available, as the agent's prompt
\* has it ("OBLIGATORIO si PAX > 100").  _seleccionar_bartenders.
BestTeam ==
    [][\A c \in Crews : pc[c] = "idle" /\ pc'[c] = "marking" =>
        /\ team'[c] \subseteq disponible
        /\ PaxPerBartender * Cardinality(team'[c]) \in pax[c]..(pax[c] + PaxPerBartender - 1)
        /\ \E h \in team'[c] : \A t \in team'[c] \ {h}, b \in disponible \ team'[c] :
                ~Before(menu[c], b, t)
        /\ pax[c] > HeadPax /\ disponible \intersect head # {} => team'[c] \intersect head # {}]_staffVars

\* "NUNCA asignés un bartender con disponible=False": no bartender is in the teams
\* of two crews.
OneTeamEach ==
    \A c, d \in Crews : c # d /\ {pc[c], pc[d]} \subseteq {"marking", "created"}
        => team[c] \intersect team[d] = {}

\* The same for crews of which none chooses while another one is marking.
OneTeamEachAlone == ~overlapped => OneTeamEach
=============================================================================
