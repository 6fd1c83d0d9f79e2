---------------------------- MODULE SiteContent ----------------------------
(***************************************************************************)
(* What administrators publish: blog posts and team members                *)
(* (modules/admin/web-infro) and the description of the site               *)
(* (modules/admin/website-info).                                           *)
(***************************************************************************)
EXTENDS Disk

CONSTANTS
  Items,  \* ids of blogs and team_members rows
  Infos   \* ids of website_infos rows

ASSUME ContentAssumption == NULL \notin Infos

VARIABLES
  item,  \* image of a blog post or team member, NULL if there is none
  info   \* logo of a row of website_infos, {} if none; NULL if no row

content == <<item, info>>

ContentType ==
  /\ item \in [Items -> Files \cup {NULL}]
  /\ info \in [Infos -> {{}} \cup {{f} : f \in Files} \cup {NULL}]

ContentRequest ==
  [pc: {"item.put"}] \cup [pc: {"item.row"}, file: Files]
  \cup [pc: {"info.find", "info.delete", "info.put", "info.check", "info.create", "info.update"},
        logo: BOOLEAN, names: {{}} \cup {{f} : f \in Files}, of: Infos \cup {NULL}]

ContentInit ==
  /\ item = [i \in Items |-> NULL]
  /\ info = [i \in Infos |-> NULL]

----------------------------------------------------------------------------
(* createAblog and createTeam, by an administrator.  The handler of        *)
(* 'Image upload failed' is never reached: put does not throw.             *)
CreateItem(r) ==
  /\ Arrive(r, [pc |-> "item.put"])
  /\ UNCHANGED content

ItemPut(r, f) ==
  /\ At(r, "item.put")
  /\ Put(f)
  /\ Goto(r, [pc |-> "item.row", file |-> f])
  /\ UNCHANGED content

ItemRow(r, i) ==
  /\ At(r, "item.row")
  /\ item[i] = NULL
  /\ item' = [item EXCEPT ![i] = request[r].file]
  /\ Finish(r)
  /\ UNCHANGED info

(* remove: the row only.                                                   *)
RemoveItem(i) ==
  /\ item[i] # NULL
  /\ item' = [item EXCEPT ![i] = NULL]
  /\ UNCHANGED <<info, disk>>

----------------------------------------------------------------------------
(* create of website-info, with a logo or without (favicon is treated the  *)
(* same way).                                                              *)

InfoState(pc, logo, names, i) == [pc |-> pc, logo |-> logo, names |-> names, of |-> i]

CreateInfo(r, logo) ==
  /\ Arrive(r, InfoState(IF logo THEN "info.find" ELSE "info.check", logo, {}, NULL))
  /\ UNCHANGED content

(* findFirst: any row, if there is one.                                    *)
FindsInfo(i) ==
  IF \A j \in Infos : info[j] = NULL THEN i = NULL ELSE i \in Infos /\ info[i] # NULL

InfoFind(r, i) ==
  /\ At(r, "info.find")
  /\ FindsInfo(i)
  /\ Goto(r, IF i = NULL \/ info[i] = {} THEN InfoState("info.put", TRUE, {}, NULL)
             ELSE InfoState("info.delete", TRUE, info[i], NULL))
  /\ UNCHANGED <<stored, lost, taken, overlap, faults, content>>

InfoDelete(r, f) ==
  /\ At(r, "info.delete")
  /\ f \in request[r].names
  /\ Delete(f)
  /\ Goto(r, InfoState("info.put", TRUE, {}, NULL))
  /\ UNCHANGED content

(* The interceptor passes arrays: files.logo.buffer is undefined, and      *)
(* writing undefined fails every time, which the driver swallows.          *)
InfoPut(r, f) ==
  /\ At(r, "info.put")
  /\ f \notin taken
  /\ taken' = taken \cup {f} /\ lost' = lost \cup {f}
  /\ Goto(r, InfoState("info.check", TRUE, {f}, NULL))
  /\ UNCHANGED <<stored, overlap, faults, content>>

InfoCheckNever(r, i) ==  \* mutant: always makes a row
  /\ At(r, "info.check")
  /\ FindsInfo(i)
  /\ Goto(r, [request[r] EXCEPT !.pc = "info.create", !.of = NULL])
  /\ UNCHANGED <<stored, lost, taken, overlap, faults, content>>

InfoCheck(r, i) ==
  /\ At(r, "info.check")
  /\ FindsInfo(i)
  /\ Goto(r, [request[r] EXCEPT !.pc = IF i = NULL THEN "info.create" ELSE "info.update", !.of = i])
  /\ UNCHANGED <<stored, lost, taken, overlap, faults, content>>

InfoCreate(r, i) ==
  /\ At(r, "info.create")
  /\ info[i] = NULL
  /\ info' = [info EXCEPT ![i] = request[r].names]
  /\ Finish(r)
  /\ UNCHANGED item

(* The update that follows sets logo to files.logo[0].filename, which is   *)
(* undefined for files kept in memory and changes nothing.                 *)
InfoUpdate(r) ==
  /\ At(r, "info.update")
  /\ info' = IF request[r].logo THEN [info EXCEPT ![request[r].of] = request[r].names] ELSE info
  /\ Finish(r)
  /\ UNCHANGED item

----------------------------------------------------------------------------
(* The pages: getAllTeams, getPublicAllTeams, GetAllWebBlogs and findAll   *)
(* of the site, which shows any of the rows.                               *)
ItemsPage == {item[i] : i \in {j \in Items : item[j] # NULL}}
SiteRows  == {i \in Infos : info[i] # NULL}

ContentNext ==
  \/ \E r \in Requests :
       \/ CreateItem(r) \/ \E logo \in BOOLEAN : CreateInfo(r, logo)
       \/ \E f \in Files : ItemPut(r, f) \/ InfoDelete(r, f) \/ InfoPut(r, f)
       \/ \E i \in Items : ItemRow(r, i)
       \/ \E i \in Infos \cup {NULL} : InfoFind(r, i) \/ InfoCheck(r, i)
       \/ \E i \in Infos : InfoCreate(r, i)
       \/ InfoUpdate(r)
  \/ \E i \in Items : RemoveItem(i)

----------------------------------------------------------------------------
(* The site has one description, which create looks for before it makes    *)
(* one.  Once two requests have overlapped there are as many as requests   *)
(* were about to make one when there was none: whoever looks later makes   *)
(* none, so that rows made and rows to come are never more than requests.  *)
OneDescription ==
  Cardinality(SiteRows) + Cardinality({r \in Requests : At(r, "info.create")})
    <= IF overlap THEN Cardinality(Requests) ELSE 1
=============================================================================
