--------------------------- MODULE MCTenantRegistry ---------------------------
(* Small instances of TenantRegistry for TLC. A behaviour runs requests and  *)
(* scripts one at a time ("serial"), or one at a time with processes that    *)
(* may end at any step ("crashing"); or it interleaves the launches and      *)
(* requests of a new firm ("racing"), or those of a migrated firm with the   *)
(* operators' scripts ("operating").                                         *)
EXTENDS TenantRegistry, TLC

CONSTANTS w1, w2, p1

VARIABLE schedule

MCvars == <<vars, schedule>>

Schedules == {"serial", "crashing", "racing", "operating"}
OneByOne == schedule \in {"serial", "crashing"}

MCInit ==
    /\ Init
    /\ schedule \in Schedules
    /\ schedule = "racing" => Fresh
    /\ schedule = "operating" => \E p \in PortalFirms : Migrated(p)

Quiet == \A w \in Workers : At(w, "idle")
OthersIdle(w) == \A v \in Workers \ {w} : At(v, "idle")

\* Bound: a new firm's processes begin no request once the ledger holds work.
NothingYet == \A f \in FirmIds : entered[f] = 0

MCNext ==
    /\ UNCHANGED schedule
    /\ \/ \E w \in Workers :
             /\ OneByOne => OthersIdle(w)
             /\ \/ LaunchStep(w)
                \/ RequestStep(w) /\ (schedule = "racing" => NothingYet \/ At(w, "write"))
                \/ ProvisionStepFails(w)
                \/ ScriptStep(w) /\ schedule # "racing"
                \/ DryRun(w) /\ schedule = "operating"
                \/ Crash(w) /\ schedule = "crashing"
       \/ /\ schedule = "operating" \/ (schedule = "crashing" /\ Quiet)
          /\ \E p \in PortalFirms : FirmAccountStatus(p)

MCSpec == MCInit /\ [][MCNext]_MCvars

Symmetry == Permutations({w1, w2})

-----------------------------------------------------------------------------
\* A firm that has a session or has accepted work stays the one registered for
\* its portal firm: no launch, rollback or script provisions a replacement
\* (portal_link.py, resolve_active_portal_firm).
IdentityKept ==
    OneByOne =>
        /\ \A s \in sessions : {f \in FirmIds : firms[f].portal = s.portal} = {s.firm}
        /\ \A f \in FirmIds : entered[f] > 0 => Registered(f) /\ HasSpace(f)

\* Between requests, the file the registry names holds every entry of work the
\* ledger accepted since its latest import, with those it brought, so that no
\* provisioning, repair or relocation strands any; and the file of a firm with a
\* session is whole and free of the template's accounts (tenant_db_relocate.py,
\* repair_firm_tenant_database_path; provision.py). Of the entries an import
\* replaces it says nothing.
WorkServed ==
    schedule = "serial" /\ Quiet =>
        /\ \A f \in FirmIds : HasSpace(f) => Work(f, spaces[f].path) = entered[f]
        /\ \A s \in sessions :
              LET file == files[s.firm][spaces[s.firm].path]
              IN  file.state = "whole" /\ ~file.seeds

\* Work lands in the file the registry names unless the firm is suspended: the
\* router drops a cached Database whose path has moved, but keeps one that no
\* longer resolves (router.py, get_database).
WorkLands ==
    [][OneByOne =>
          \A w \in Workers, f \in FirmIds :
              At(w, "write") /\ entered'[f] > entered[f] /\ spaces[f].active =>
                  files'[f][spaces[f].path].work > files[f][spaces[f].path].work]_MCvars

\* One at a time, with crashes between any two steps, no file loses work but to
\* an import, which has kept a copy of that file. However launches interleave, a
\* file loses work, and a firm that accepted work its row, only by the rollback
\* of a provisioning that another launch overtook, by a repair that judged the
\* file before it was whole, by a clone that found none before another launch
\* made it, by a relocation or by an import (provision.py; template.py;
\* portal_link.py, _ensure_tenant_database_file; legacy_tenant_import.py).
LossCauses ==
    [][\A f \in FirmIds :
          \/ (entered[f] > 0 /\ Registered(f) /\ ~Registered(f)')
          \/ \E p \in Paths : files'[f][p].work < files[f][p].work
          => \E w \in Workers :
                /\ Firm(w) = f
                /\ IF OneByOne
                   THEN At(w, "import") /\ req[w].copy.work = Canonical(f).work
                   ELSE req[w].at \in {"undo", "unlink", "redo", "copy", "copying",
                                      "replace", "import"}]_MCvars
=============================================================================
