----------------------------- MODULE PageProofs ------------------------------
(* What holds of single pages of the web front end, whatever the bounds on    *)
(* what their visitors do.                                                    *)
EXTENDS CallsProofs

VARIABLES ui, net, srv, hist

-----------------------------------------------------------------------------
(* A restaurant's menus.  A form is known by the names typed into it.  The    *)
(* call that saves one keeps the buttons off until the read after it, which   *)
(* closes the form: as long as no read fails and no answer of a creation is   *)
(* lost, names that have made a menu are off the screen before they can be    *)
(* saved again.                                                               *)

CONSTANTS Halls, MaxMenus, MaxNames, MaxMenuClicks

Menu == INSTANCE MenusTab WITH MaxTexts <- MaxNames, MaxClicks <- MaxMenuClicks

LEMMA MenuCalls ==
  /\ \A n, i, d : Menu!Served(n, i, d) = Served(n, i, d)
  /\ \A n, i, d : Menu!Refused(n, i, d) = Refused(n, i, d)
  /\ \A n, i : Menu!Settled(n, i) = Settled(n, i)
  /\ \A n, k, a : Menu!Sent(n, k, a) = Sent(n, k, a)
  /\ \A n, k : Menu!Unheard(n, k) = Unheard(n, k)
BY DEF Menu!Served, Served, Menu!Refused, Refused, Menu!Settled, Settled, Menu!RemoveAt,
       RemoveAt, Menu!Sent, Sent, Menu!Call, Call, Menu!Unheard, Unheard

MenuMakes(n, i) == i \in DOMAIN n /\ n[i].kind = "create"
MenuSaves(n, i) == i \in DOMAIN n /\ n[i].here /\ n[i].arg.after = "save"
MenuCloses(n, i) == /\ MenuSaves(n, i)
                    /\ n[i].kind = "refresh" \/ (n[i].kind = "create" /\ n[i].ok)

Filed(filed, t) == t \in DOMAIN filed /\ filed[t] # 0

MenuUi(u) ==
    /\ u = [current |-> u.current, form |-> u.form, fields |-> u.fields, opened |-> u.opened,
            saving |-> u.saving, busy |-> u.busy, duplicating |-> u.duplicating,
            confirming |-> u.confirming, open |-> u.open]
    /\ u.saving \in BOOLEAN /\ 0 \notin DOMAIN u.current.menus

MenuFields(form, f, texts) ==
    form = 0 => /\ f = [hall |-> f.hall, text |-> f.text, active |-> f.active, order |-> f.order]
                /\ f.text \in {None} \cup 1..texts

MenuSrv(s) == /\ s = [menus |-> s.menus, halls |-> s.halls, last |-> s.last]
              /\ s.last \in Nat /\ 0 \notin DOMAIN s.menus

MenuPast(h) ==
    /\ h = [texts |-> h.texts, clicks |-> h.clicks, unread |-> h.unread, wanted |-> h.wanted,
            copies |-> h.copies, rows |-> h.rows, filed |-> h.filed]
    /\ h.texts \in Nat /\ h.unread \in BOOLEAN
    /\ h.filed \in [Menu!Texts -> Nat]
    /\ \A t : Filed(h.filed, t) => t \in 1..h.texts

MenuNet(n, texts) ==
    /\ Proper(n)
    /\ \A i \in DOMAIN n : n[i].kind \in Menu!Kinds
    /\ \A i : MenuMakes(n, i) => n[i].arg.row.text \in 1..texts
    /\ \A i \in DOMAIN n : n[i].kind = "refresh" /\ n[i].ok => 0 \notin DOMAIN n[i].data.menus
    /\ \A i \in DOMAIN n : n[i].kind = "part" =>
          n[i].arg = [after |-> "copy", left |-> n[i].arg.left, tree |-> n[i].arg.tree,
                      copy |-> n[i].arg.copy]

\* No two calls make a menu of the same names, and none that did not succeed has.
EachOnce(n, filed) ==
    /\ \A t \in DOMAIN filed : filed[t] <= 1
    /\ \A i, j : MenuSaves(n, i) /\ MenuSaves(n, j) => i = j
    /\ \A i, j : MenuMakes(n, i) /\ MenuMakes(n, j) /\ n[i].arg.row.text = n[j].arg.row.text => i = j
    /\ \A i : MenuMakes(n, i) /\ ~ n[i].ok => ~ Filed(filed, n[i].arg.row.text)

\* What an open form has made is about to close it, and what it is about to make
\* keeps its button off.
FormOnce(form, text, saving, n, filed) ==
    /\ ~ saving => \A i : ~ MenuSaves(n, i)
    /\ form = 0 /\ text # None =>
          /\ Filed(filed, text) => \E i : MenuCloses(n, i)
          /\ \A i : MenuMakes(n, i) /\ n[i].arg.row.text = text => MenuSaves(n, i)

MenuInv ==
    /\ MenuUi(ui) /\ MenuSrv(srv) /\ MenuPast(hist) /\ MenuNet(net, hist.texts)
    /\ MenuFields(ui.form, ui.fields, hist.texts)
    /\ ~ hist.unread => /\ EachOnce(net, hist.filed)
                        /\ FormOnce(ui.form, ui.fields.text, ui.saving, net, hist.filed)

LEMMA MenuInit ==
  ASSUME None # 0, Menu!Init PROVE MenuInv
<1>1. PICK h \in Halls : Menu!Init!(h)
  BY DEF Menu!Init
<1>2. PICK menus : /\ srv = [menus |-> menus, halls |-> Halls, last |-> 2]
                   /\ ui = Menu!Fresh([menus |-> menus, halls |-> Halls])
                   /\ net = << >> /\ 0 \notin DOMAIN menus
                   /\ \E rows : hist = [texts |-> 0, clicks |-> 0, unread |-> FALSE, wanted |-> None,
                                copies |-> {}, rows |-> rows, filed |-> [t \in Menu!Texts |-> 0]]
  <2>1. PICK menus :
          /\ menus = <<[row |-> [hall |-> h, text |-> 0, active |-> TRUE, order |-> 0],
                        parts |-> Menu!Tree],
                       [row |-> [hall |-> None, text |-> 0, active |-> TRUE, order |-> 1],
                        parts |-> << >>]>>
    OBVIOUS
  <2>2. 0 \notin DOMAIN menus
    BY <2>1
  <2>3. /\ srv = [menus |-> menus, halls |-> Halls, last |-> 2]
        /\ ui = Menu!Fresh([menus |-> menus, halls |-> Halls])
        /\ net = << >>
    BY <1>1, <2>1
  <2>4. PICK rows : rows = [m \in 1..2 |-> menus[m].row]
    OBVIOUS
  <2>5. hist = [texts |-> 0, clicks |-> 0, unread |-> FALSE, wanted |-> None,
                copies |-> {}, rows |-> rows, filed |-> [t \in Menu!Texts |-> 0]]
    BY <1>1, <2>1, <2>4
  <2> QED BY <2>2, <2>3, <2>5
<1>3. Proper(net) /\ DOMAIN net = {}
  BY <1>2, ProperEmpty
<1>4. MenuSrv(srv)
  BY <1>2 DEF MenuSrv
<1>5. MenuUi(ui) /\ ui.form = None
  BY <1>2 DEF Menu!Fresh, MenuUi
<1>6. /\ MenuPast(hist) /\ \A t \in DOMAIN hist.filed : hist.filed[t] = 0
  BY <1>2 DEF MenuPast, Filed
<1>7. MenuNet(net, hist.texts) /\ EachOnce(net, hist.filed)
  BY <1>3, <1>6 DEF MenuNet, EachOnce, MenuMakes, MenuSaves
<1> QED BY <1>3, <1>4, <1>5, <1>6, <1>7 DEF MenuInv, MenuFields, FormOnce, MenuMakes, MenuSaves

\* An answer, if what was made goes with it.
LEMMA MenuAnswer ==
  ASSUME MenuInv, ui' = ui, MenuSrv(srv'), NEW i \in DOMAIN net, net[i].stage = "sent",
         NEW data, NEW ok, Answers(net, i, net', data, ok),
         net[i].kind = "refresh" /\ ok => 0 \notin DOMAIN data.menus,
         MenuPast(hist'), hist'.texts = hist.texts, hist'.unread = hist.unread,
         \/ hist'.filed = hist.filed
         \/ /\ MenuMakes(net, i) /\ ok = TRUE
            /\ hist'.filed = [hist.filed EXCEPT ![net[i].arg.row.text] = hist.filed[net[i].arg.row.text] + 1]
  PROVE  MenuInv'
<1>1. /\ Proper(net') /\ DOMAIN net' = DOMAIN net
      /\ \A j \in DOMAIN net \ {i} : net'[j] = net[j]
      /\ \A j \in DOMAIN net : /\ net'[j].kind = net[j].kind /\ net'[j].arg = net[j].arg
                               /\ net'[j].here = net[j].here
      /\ net'[i].ok = ok /\ net'[i].data = data
  BY DEF Answers
<1>2. \A j : (MenuMakes(net', j) <=> MenuMakes(net, j)) /\ (MenuSaves(net', j) <=> MenuSaves(net, j))
  BY <1>1 DEF MenuMakes, MenuSaves
<1>3. ~ net[i].ok
  BY DEF MenuInv, MenuNet, Proper, IsCall
<1>4. \A j : MenuCloses(net, j) => MenuCloses(net', j)
  BY <1>1, <1>2, <1>3 DEF MenuCloses, MenuSaves
<1>5. MenuNet(net', hist.texts)
  BY <1>1, <1>2 DEF MenuInv, MenuNet, MenuMakes
<1>6. ASSUME ~ hist.unread
      PROVE  /\ EachOnce(net', hist'.filed)
             /\ FormOnce(ui.form, ui.fields.text, ui.saving, net', hist'.filed)
  <2>1. EachOnce(net, hist.filed) /\ FormOnce(ui.form, ui.fields.text, ui.saving, net, hist.filed)
    BY <1>6 DEF MenuInv
  <2>2. /\ \A j, k : MenuSaves(net', j) /\ MenuSaves(net', k) => j = k
        /\ \A j, k : MenuMakes(net', j) /\ MenuMakes(net', k)
                     /\ net'[j].arg.row.text = net'[k].arg.row.text => j = k
    BY <1>1, <1>2, <2>1 DEF EachOnce, MenuMakes
  <2>3. CASE hist'.filed = hist.filed
    <3>1. EachOnce(net', hist'.filed)
      BY <1>1, <1>2, <1>3, <2>1, <2>2, <2>3 DEF EachOnce, MenuMakes
    <3>2. FormOnce(ui.form, ui.fields.text, ui.saving, net', hist'.filed)
      BY <1>1, <1>2, <1>4, <2>1, <2>3 DEF FormOnce, MenuMakes
    <3> QED BY <3>1, <3>2
  <2>4. CASE /\ MenuMakes(net, i) /\ ok = TRUE
             /\ hist'.filed = [hist.filed EXCEPT ![net[i].arg.row.text] = hist.filed[net[i].arg.row.text] + 1]
    <3>1. PICK t : t = net[i].arg.row.text
      OBVIOUS
    <3>2. ~ Filed(hist.filed, t)
      BY <1>3, <2>1, <2>4, <3>1 DEF EachOnce
    <3>3. /\ DOMAIN hist'.filed = DOMAIN hist.filed
          /\ t \in DOMAIN hist.filed => hist'.filed[t] = 1
          /\ \A s \in DOMAIN hist.filed \ {t} : hist'.filed[s] = hist.filed[s]
      BY <2>4, <3>1, <3>2 DEF MenuInv, MenuPast, Filed
    <3>4. \A s : Filed(hist'.filed, s) => s = t \/ Filed(hist.filed, s)
      BY <3>3 DEF Filed
    <3>5. \A j : MenuMakes(net', j) /\ ~ net'[j].ok => ~ Filed(hist'.filed, net'[j].arg.row.text)
      <4>1. SUFFICES ASSUME NEW j, MenuMakes(net', j), ~ net'[j].ok
                     PROVE  net[j].arg.row.text # t /\ ~ Filed(hist.filed, net[j].arg.row.text)
        BY <1>1, <1>2, <3>4 DEF MenuMakes
      <4>2. j # i /\ MenuMakes(net, j) /\ ~ net[j].ok
        BY <1>1, <1>2, <2>4, <4>1 DEF MenuMakes
      <4> QED BY <2>1, <2>4, <3>1, <4>2 DEF EachOnce
    <3>6. EachOnce(net', hist'.filed)
      BY <2>1, <2>2, <3>3, <3>5 DEF EachOnce
    <3>7. ASSUME ui.form = 0, ui.fields.text # None, Filed(hist'.filed, ui.fields.text)
          PROVE  \E j : MenuCloses(net', j)
      <4>1. CASE Filed(hist.filed, ui.fields.text)
        BY <1>4, <2>1, <3>7, <4>1 DEF FormOnce
      <4>2. CASE ui.fields.text = t
        <5>1. MenuSaves(net, i)
          BY <2>1, <2>4, <3>1, <3>7, <4>2 DEF FormOnce
        <5>2. MenuCloses(net', i)
          BY <1>1, <1>2, <2>4, <5>1 DEF MenuCloses, MenuMakes
        <5> QED BY <5>2
      <4> QED BY <3>4, <3>7, <4>1, <4>2
    <3>8. FormOnce(ui.form, ui.fields.text, ui.saving, net', hist'.filed)
      BY <1>1, <1>2, <2>1, <3>7 DEF FormOnce, MenuMakes
    <3> QED BY <3>6, <3>8
  <2> QED BY <2>3, <2>4
<1> QED BY <1>5, <1>6 DEF MenuInv

\* An answer that gets lost: of a menu that was made nothing is said from then on,
\* and no other call closes a form by its answer.
LEMMA MenuLost ==
  ASSUME MenuInv, Menu!AnswerLost, ui' = ui PROVE MenuInv'
<1>1. PICK i \in DOMAIN net :
        /\ net' = Refused(net, i, None) /\ srv' = srv
        /\ hist' = [hist EXCEPT !.wanted = None, !.unread = @ \/ net[i].kind = "create"]
  BY MenuCalls DEF Menu!AnswerLost, Menu!Coming
<1>2. PICK unread \in BOOLEAN : unread = (hist.unread \/ net[i].kind = "create")
  OBVIOUS
<1>3. /\ MenuPast(hist') /\ hist'.texts = hist.texts /\ hist'.unread = unread
      /\ hist'.filed = hist.filed
  <2>1. hist' = [hist EXCEPT !.wanted = None, !.unread = unread]
    BY <1>1, <1>2
  <2> QED BY <2>1 DEF MenuInv, MenuPast
<1>4. Answers(net, i, net', None, FALSE)
  BY <1>1, ProperAnswered DEF MenuInv, MenuNet
<1>5. /\ Proper(net') /\ DOMAIN net' = DOMAIN net
      /\ \A j \in DOMAIN net \ {i} : net'[j] = net[j]
      /\ \A j \in DOMAIN net : /\ net'[j].kind = net[j].kind /\ net'[j].arg = net[j].arg
                               /\ net'[j].here = net[j].here
      /\ net'[i].ok = FALSE
  BY <1>4 DEF Answers
<1>6. \A j : (MenuMakes(net', j) <=> MenuMakes(net, j)) /\ (MenuSaves(net', j) <=> MenuSaves(net, j))
  BY <1>5 DEF MenuMakes, MenuSaves
<1>7. MenuNet(net', hist.texts)
  BY <1>5, <1>6 DEF MenuInv, MenuNet, MenuMakes
<1>8. ASSUME ~ unread
      PROVE  /\ EachOnce(net', hist.filed)
             /\ FormOnce(ui.form, ui.fields.text, ui.saving, net', hist.filed)
  <2>1. ~ hist.unread /\ net[i].kind # "create"
    BY <1>2, <1>8
  <2>2. EachOnce(net, hist.filed) /\ FormOnce(ui.form, ui.fields.text, ui.saving, net, hist.filed)
    BY <2>1 DEF MenuInv
  <2>3. \A j : MenuCloses(net, j) => MenuCloses(net', j)
    BY <1>5, <1>6, <2>1 DEF MenuCloses, MenuSaves
  <2>4. EachOnce(net', hist.filed)
    BY <1>5, <1>6, <2>1, <2>2 DEF EachOnce, MenuMakes
  <2>5. FormOnce(ui.form, ui.fields.text, ui.saving, net', hist.filed)
    BY <1>5, <1>6, <2>2, <2>3 DEF FormOnce, MenuMakes
  <2> QED BY <2>4, <2>5
<1> QED BY <1>1, <1>3, <1>7, <1>8 DEF MenuInv

LEMMA MenuBackend ==
  ASSUME MenuInv, Menu!Backend PROVE MenuInv'
<1>1. ui' = ui
  BY DEF Menu!Backend
<1>2. Proper(net) /\ MenuPast(hist) /\ MenuSrv(srv) /\ MenuNet(net, hist.texts)
  BY DEF MenuInv, MenuNet
<1>3. CASE Menu!HallDeleted
  <2>1. PICK halls : srv' = [srv EXCEPT !.halls = halls] /\ UNCHANGED <<net, hist>>
    BY <1>3 DEF Menu!HallDeleted
  <2>2. MenuSrv(srv')
    BY <1>2, <2>1 DEF MenuSrv
  <2> QED BY <1>1, <2>1, <2>2 DEF MenuInv
<1>4. CASE Menu!loadListingTree
  <2>1. PICK i, data :
          /\ i \in DOMAIN net
          /\ net[i].stage = "sent" /\ net' = Served(net, i, data) /\ UNCHANGED <<srv, hist>>
          /\ data = [menus |-> srv.menus, halls |-> srv.halls]
    BY <1>4, MenuCalls DEF Menu!loadListingTree, Menu!Waiting
  <2>2. 0 \notin DOMAIN data.menus
    BY <1>2, <2>1 DEF MenuSrv
  <2>3. Answers(net, i, net', data, TRUE)
    BY <1>2, <2>1, ProperAnswered
  <2>4. MenuSrv(srv') /\ MenuPast(hist') /\ hist' = hist
    BY <1>2, <2>1
  <2> QED BY <1>1, <2>1, <2>2, <2>3, <2>4, MenuAnswer
<1>5. CASE Menu!ServeRefusal
  <2>1. PICK i, rows :
          /\ i \in DOMAIN net
          /\ net[i].stage = "sent" /\ net' = Refused(net, i, None) /\ srv' = srv
          /\ hist' = [hist EXCEPT !.wanted = None, !.rows = rows]
    BY <1>5, MenuCalls DEF Menu!ServeRefusal
  <2>2. /\ MenuPast(hist') /\ hist'.texts = hist.texts /\ hist'.unread = hist.unread
        /\ hist'.filed = hist.filed
    BY <1>2, <2>1 DEF MenuPast
  <2>3. Answers(net, i, net', None, FALSE)
    BY <1>2, <2>1, ProperAnswered
  <2>4. MenuSrv(srv')
    BY <1>2, <2>1
  <2> QED BY <1>1, <2>1, <2>2, <2>3, <2>4, MenuAnswer
<1>6. CASE Menu!ServeUpdate \/ Menu!ServePart \/ Menu!ServeDelete
  <2>1. PICK i, rows, menus :
          /\ i \in DOMAIN net
          /\ net[i].stage = "sent" /\ net[i].kind # "refresh" /\ net' = Served(net, i, None)
          /\ hist' = [hist EXCEPT !.rows = rows] \/ hist' = hist
          /\ srv' = [srv EXCEPT !.menus = menus] /\ 0 \notin DOMAIN menus
    <3>1. CASE Menu!ServeUpdate
      <4>1. PICK i, rows :
              /\ i \in Menu!Waiting(net, "update") \cup Menu!Waiting(net, "swap") \cup Menu!Waiting(net, "stray")
              /\ srv' = [srv EXCEPT !.menus[net[i].arg.menu].row = net[i].arg.row]
              /\ net' = Served(net, i, None) /\ hist' = [hist EXCEPT !.rows = rows]
        BY <3>1, MenuCalls DEF Menu!ServeUpdate
      <4>2. PICK menus : menus = [srv.menus EXCEPT ![net[i].arg.menu].row = net[i].arg.row]
        OBVIOUS
      <4>3. srv' = [srv EXCEPT !.menus = menus] /\ 0 \notin DOMAIN menus
        BY <1>2, <4>1, <4>2 DEF MenuSrv
      <4> QED BY <4>1, <4>3 DEF Menu!Waiting
    <3>2. CASE Menu!ServePart
      <4>1. PICK i \in Menu!Waiting(net, "part") :
              /\ srv' = [srv EXCEPT !.menus[net[i].arg.copy].parts = Append(@, Head(net[i].arg.left))]
              /\ net' = Served(net, i, None) /\ hist' = hist
        BY <3>2, MenuCalls DEF Menu!ServePart
      <4>2. PICK menus : menus = [srv.menus EXCEPT
              ![net[i].arg.copy].parts = Append(@, Head(net[i].arg.left))]
        OBVIOUS
      <4>3. srv' = [srv EXCEPT !.menus = menus] /\ 0 \notin DOMAIN menus
        BY <1>2, <4>1, <4>2 DEF MenuSrv
      <4> QED BY <4>1, <4>3 DEF Menu!Waiting
    <3>3. CASE Menu!ServeDelete
      <4>1. PICK i, rows :
              /\ i \in Menu!Waiting(net, "delete")
              /\ srv' = [srv EXCEPT !.menus = Menu!Without(@, net[i].arg.menu)]
              /\ net' = Served(net, i, None) /\ hist' = [hist EXCEPT !.rows = rows]
        BY <3>3, MenuCalls DEF Menu!ServeDelete
      <4>2. PICK menus : menus = Menu!Without(srv.menus, net[i].arg.menu)
        OBVIOUS
      <4>3. srv' = [srv EXCEPT !.menus = menus] /\ 0 \notin DOMAIN menus
        BY <1>2, <4>1, <4>2 DEF MenuSrv, Menu!Without
      <4> QED BY <4>1, <4>3 DEF Menu!Waiting
    <3> QED BY <1>6, <3>1, <3>2, <3>3
  <2>2. /\ MenuPast(hist') /\ hist'.texts = hist.texts /\ hist'.unread = hist.unread
        /\ hist'.filed = hist.filed
    <3>1. CASE hist' = hist
      BY <1>2, <3>1
    <3>2. CASE hist' = [hist EXCEPT !.rows = rows]
      BY <1>2, <3>2 DEF MenuPast
    <3> QED BY <2>1, <3>1, <3>2
  <2>3. Answers(net, i, net', None, TRUE)
    BY <1>2, <2>1, ProperAnswered
  <2>4. MenuSrv(srv')
    BY <1>2, <2>1 DEF MenuSrv
  <2> QED BY <1>1, <2>1, <2>2, <2>3, <2>4, MenuAnswer
<1>7. CASE Menu!ServeCreate
  <2>0. PICK i \in Menu!Waiting(net, "create") \cup Menu!Waiting(net, "copy") : Menu!ServeCreate!(i)
    BY <1>7 DEF Menu!ServeCreate
  <2> DEFINE t == net[i].arg.row.text
  <2>1. PICK m, menus, rows, filed :
          /\ i \in DOMAIN net /\ net[i].kind \in {"create", "copy"} /\ net[i].stage = "sent"
          /\ m = srv.last + 1 /\ srv' = [srv EXCEPT !.last = m, !.menus = menus]
          /\ DOMAIN menus = DOMAIN srv.menus \cup {m}
          /\ net' = Served(net, i, m)
          /\ hist' = [hist EXCEPT !.rows = rows, !.filed = filed]
          /\ filed = IF net[i].kind = "create" THEN [hist.filed EXCEPT ![t] = hist.filed[t] + 1] ELSE hist.filed
    <3>1. PICK m, menus, rows, filed :
            /\ m = srv.last + 1
            /\ menus = Menu!With(srv.menus, m, [row |-> net[i].arg.row, parts |-> << >>])
            /\ rows = IF hist.rows = None THEN None ELSE Menu!With(hist.rows, m, net[i].arg.row)
            /\ filed = IF net[i].kind = "create" THEN [hist.filed EXCEPT ![t] = hist.filed[t] + 1]
                                                 ELSE hist.filed
      OBVIOUS
    <3>2. DOMAIN menus = DOMAIN srv.menus \cup {m}
      BY <3>1 DEF Menu!With
    <3>3. i \in DOMAIN net /\ net[i].kind \in {"create", "copy"} /\ net[i].stage = "sent"
      BY <2>0 DEF Menu!Waiting
    <3>4. /\ srv' = [srv EXCEPT !.last = m, !.menus = menus]
          /\ net' = Served(net, i, m)
          /\ hist' = [hist EXCEPT !.rows = rows, !.filed = filed]
      BY <2>0, <3>1, MenuCalls
    <3> QED BY <3>1, <3>2, <3>3, <3>4
  <2>2. MenuSrv(srv')
    <3>1. m \in Nat /\ m # 0
      BY <1>2, <2>1 DEF MenuSrv
    <3> QED BY <1>2, <2>1, <3>1 DEF MenuSrv
  <2>3. net[i].kind = "create" => MenuMakes(net, i) /\ t \in 1..hist.texts
    BY <1>2, <2>1 DEF MenuNet, MenuMakes
  <2>4. /\ MenuPast(hist') /\ hist'.texts = hist.texts /\ hist'.unread = hist.unread
        /\ hist'.filed = filed
    <3>1. filed \in [Menu!Texts -> Nat] /\ \A s : Filed(filed, s) => s = t \/ Filed(hist.filed, s)
      <4>1. PICK f, u : f = hist.filed /\ u = t
        OBVIOUS
      <4>2. f \in [Menu!Texts -> Nat]
        BY <1>2, <4>1 DEF MenuPast
      <4>3. filed = f \/ filed = [f EXCEPT ![u] = f[u] + 1]
        BY <2>1, <4>1
      <4>4. filed \in [Menu!Texts -> Nat] /\ \A s \in Menu!Texts \ {u} : filed[s] = f[s]
        BY ONLY <4>2, <4>3
      <4> QED BY <4>1, <4>2, <4>4 DEF Filed
    <3>2. \A s : Filed(filed, s) => s \in 1..hist.texts
      BY <1>2, <2>1, <2>3, <3>1 DEF MenuPast
    <3> QED BY <1>2, <2>1, <3>1, <3>2 DEF MenuPast
  <2>5. Answers(net, i, net', m, TRUE)
    BY <1>2, <2>1, ProperAnswered
  <2> QED BY <1>1, <2>1, <2>2, <2>3, <2>4, <2>5, MenuAnswer
<1>8. CASE Menu!AnswerLost
  BY <1>1, <1>8, MenuLost
<1> QED BY <1>3, <1>4, <1>5, <1>6, <1>7, <1>8 DEF Menu!Backend

\* The calls in flight after a call is over.
LEMMA MenuSettle ==
  ASSUME NEW n, NEW m, NEW i \in DOMAIN n, Settles(n, m, i), NEW texts, NEW filed, NEW form, NEW text,
         NEW saving, NEW more \in BOOLEAN, MenuNet(n, texts),
         more = saving \/ MenuSaves(n, i)
  PROVE  /\ MenuNet(m, texts)
         /\ EachOnce(n, filed) => EachOnce(m, filed)
         /\ EachOnce(n, filed) /\ FormOnce(form, text, saving, n, filed)
               /\ (form # 0 \/ ~ MenuCloses(n, i)) => FormOnce(form, text, more, m, filed)
<1>1. /\ \A j : j \in DOMAIN m => From(i, j) \in DOMAIN n \ {i} /\ m[j] = n[From(i, j)]
      /\ \A j, k \in DOMAIN m : From(i, j) = From(i, k) => j = k
      /\ \A k \in DOMAIN n \ {i} : \E j \in DOMAIN m : From(i, j) = k /\ m[j] = n[k]
      /\ Proper(m)
  BY DEF Settles
<1>2. /\ \A j : MenuMakes(m, j) => MenuMakes(n, From(i, j)) /\ m[j] = n[From(i, j)]
      /\ \A j : MenuSaves(m, j) => MenuSaves(n, From(i, j)) /\ m[j] = n[From(i, j)] /\ From(i, j) # i
      /\ \A j : j \in DOMAIN m /\ MenuSaves(n, From(i, j)) => MenuSaves(m, j)
      /\ \A k : MenuCloses(n, k) /\ k # i => \E j : MenuCloses(m, j)
  BY <1>1 DEF MenuMakes, MenuSaves, MenuCloses
<1>3. MenuNet(m, texts)
  BY <1>1, <1>2 DEF MenuNet
<1>4. ASSUME EachOnce(n, filed) PROVE EachOnce(m, filed)
  <2>1. /\ \A j, k : MenuSaves(m, j) /\ MenuSaves(m, k) => j = k
        /\ \A j, k : MenuMakes(m, j) /\ MenuMakes(m, k)
                     /\ m[j].arg.row.text = m[k].arg.row.text => j = k
    BY <1>1, <1>2, <1>4 DEF EachOnce, MenuMakes, MenuSaves
  <2> QED BY <1>2, <1>4, <2>1 DEF EachOnce
<1>5. ASSUME EachOnce(n, filed), FormOnce(form, text, saving, n, filed),
             form # 0 \/ ~ MenuCloses(n, i)
      PROVE  FormOnce(form, text, more, m, filed)
  <2>1. ~ more => \A j : ~ MenuSaves(m, j)
    BY <1>2, <1>5 DEF EachOnce, FormOnce
  <2>2. ASSUME form = 0, text # None, Filed(filed, text) PROVE \E j : MenuCloses(m, j)
    BY <1>2, <1>5, <2>2 DEF FormOnce
  <2>3. ASSUME form = 0, text # None, NEW j, MenuMakes(m, j), m[j].arg.row.text = text
        PROVE  MenuSaves(m, j)
    BY <1>2, <1>5, <2>3 DEF FormOnce, MenuMakes
  <2> QED BY <2>1, <2>2, <2>3 DEF FormOnce
<1> QED BY <1>3, <1>4, <1>5

\* The same where another call of its handler follows.
LEMMA MenuFollow ==
  ASSUME NEW n, NEW m, NEW i \in DOMAIN n, NEW last, NEW kind, NEW arg, Follows(n, m, i, last, kind, arg),
         NEW texts, NEW filed, NEW form, NEW text, NEW saving, MenuNet(n, texts),
         kind \in {"refresh", "part"}, arg.after = "save" => n[i].arg.after = "save",
         \/ kind = "refresh" /\ arg = n[i].arg
         \/ n[i].kind \in {"copy", "part"},
         kind = "part" => arg = [after |-> "copy", left |-> arg.left, tree |-> arg.tree,
                                 copy |-> arg.copy]
  PROVE  /\ MenuNet(m, texts)
         /\ EachOnce(n, filed) => EachOnce(m, filed)
         /\ FormOnce(form, text, saving, n, filed) => FormOnce(form, text, saving, m, filed)
<1>1. /\ \A j : j \in DOMAIN m /\ j # last => From(i, j) \in DOMAIN n \ {i} /\ m[j] = n[From(i, j)]
      /\ \A j, k : /\ j \in DOMAIN m \ {last} /\ k \in DOMAIN m \ {last}
                   /\ From(i, j) = From(i, k)
                   => j = k
      /\ \A k \in DOMAIN n \ {i} : \E j \in DOMAIN m : m[j] = n[k]
      /\ Proper(m) /\ last \in DOMAIN m
      /\ m[last].kind = kind /\ m[last].arg = arg /\ m[last].here = n[i].here /\ ~ m[last].ok
  BY DEF Follows
<1>2. /\ \A j : MenuMakes(m, j) => j # last /\ MenuMakes(n, From(i, j)) /\ m[j] = n[From(i, j)]
      /\ \A j : MenuSaves(m, j) /\ j # last => MenuSaves(n, From(i, j)) /\ From(i, j) # i
      /\ MenuSaves(m, last) => MenuSaves(n, i)
      /\ \A j : j \in DOMAIN m /\ j # last /\ MenuSaves(n, From(i, j)) => MenuSaves(m, j)
  BY <1>1 DEF MenuMakes, MenuSaves
<1>3. ASSUME NEW k, MenuCloses(n, k) PROVE \E j : MenuCloses(m, j)
  <2>1. CASE k # i
    BY <1>1, <1>3, <2>1 DEF MenuCloses, MenuSaves
  <2>2. CASE k = i
    <3>1. n[i].kind \in {"refresh", "create"} /\ n[i].here /\ n[i].arg.after = "save"
      BY <1>3, <2>2 DEF MenuCloses, MenuSaves
    <3>2. MenuCloses(m, last)
      BY <1>1, <3>1 DEF MenuCloses, MenuSaves
    <3> QED BY <3>2
  <2> QED BY <2>1, <2>2
<1>4. MenuNet(m, texts)
  <2>1. \A j : MenuMakes(m, j) => m[j].arg.row.text \in 1..texts
    BY <1>2 DEF MenuNet
  <2>2. ASSUME NEW j \in DOMAIN m
        PROVE  /\ m[j].kind \in Menu!Kinds
               /\ m[j].kind = "refresh" /\ m[j].ok => 0 \notin DOMAIN m[j].data.menus
               /\ m[j].kind = "part" => m[j].arg = [after |-> "copy", left |-> m[j].arg.left,
                                            tree |-> m[j].arg.tree, copy |-> m[j].arg.copy]
    <3>1. CASE j = last
      BY <1>1, <3>1 DEF Menu!Kinds
    <3>2. CASE j # last
      BY <1>1, <3>2 DEF MenuNet
    <3> QED BY <3>1, <3>2
  <2> QED BY <1>1, <2>1, <2>2 DEF MenuNet
<1>5. ASSUME EachOnce(n, filed) PROVE EachOnce(m, filed)
  <2>1. ASSUME NEW j, NEW k, MenuSaves(m, j), MenuSaves(m, k) PROVE j = k
    BY <1>1, <1>2, <1>5, <2>1 DEF EachOnce, MenuSaves
  <2>2. ASSUME NEW j, NEW k, MenuMakes(m, j), MenuMakes(m, k), m[j].arg.row.text = m[k].arg.row.text
        PROVE  j = k
    BY <1>1, <1>2, <1>5, <2>2 DEF EachOnce, MenuMakes
  <2> QED BY <1>2, <1>5, <2>1, <2>2 DEF EachOnce
<1>6. ASSUME FormOnce(form, text, saving, n, filed) PROVE FormOnce(form, text, saving, m, filed)
  <2>1. ~ saving => \A j : ~ MenuSaves(m, j)
    BY <1>2, <1>6 DEF FormOnce
  <2>2. ASSUME form = 0, text # None, Filed(filed, text) PROVE \E j : MenuCloses(m, j)
    BY <1>3, <1>6, <2>2 DEF FormOnce
  <2>3. ASSUME form = 0, text # None, NEW j, MenuMakes(m, j), m[j].arg.row.text = text
        PROVE  MenuSaves(m, j)
    BY <1>2, <1>6, <2>3 DEF FormOnce, MenuMakes
  <2> QED BY <2>1, <2>2, <2>3 DEF FormOnce
<1> QED BY <1>4, <1>5, <1>6

\* The same where a button sends a call of its own.
LEMMA MenuAsk ==
  ASSUME NEW n, NEW m, NEW last, NEW kind, NEW arg, Asks(n, m, last, kind, arg),
         kind \in {"update", "swap", "delete", "copy"}, arg.after # "save",
         NEW texts, NEW filed, NEW form, NEW text, NEW saving, MenuNet(n, texts)
  PROVE  /\ MenuNet(m, texts)
         /\ EachOnce(n, filed) => EachOnce(m, filed)
         /\ FormOnce(form, text, saving, n, filed) => FormOnce(form, text, saving, m, filed)
<1>1. /\ Proper(m) /\ DOMAIN m = DOMAIN n \cup {last}
      /\ \A j : j \in DOMAIN n => m[j] = n[j]
      /\ \A j : /\ MenuMakes(m, j) <=> MenuMakes(n, j)
                /\ MenuSaves(m, j) <=> MenuSaves(n, j)
                /\ MenuCloses(n, j) => MenuCloses(m, j)
  BY DEF Asks, MenuMakes, MenuSaves, MenuCloses
<1>2. /\ m[last].kind = kind /\ ~ m[last].ok
  BY DEF Asks
<1>3. MenuNet(m, texts)
  <2>1. \A j : MenuMakes(m, j) => m[j].arg.row.text \in 1..texts
    BY <1>1 DEF MenuNet, MenuMakes
  <2>2. ASSUME NEW j \in DOMAIN m
        PROVE  /\ m[j].kind \in Menu!Kinds
               /\ m[j].kind = "refresh" /\ m[j].ok => 0 \notin DOMAIN m[j].data.menus
               /\ m[j].kind = "part" => m[j].arg = [after |-> "copy", left |-> m[j].arg.left,
                                            tree |-> m[j].arg.tree, copy |-> m[j].arg.copy]
    <3>1. CASE j = last /\ j \notin DOMAIN n
      BY <1>2, <3>1 DEF Menu!Kinds
    <3>2. CASE j \in DOMAIN n
      BY <1>1, <3>2 DEF MenuNet
    <3> QED BY <1>1, <3>1, <3>2
  <2> QED BY <1>1, <2>1, <2>2 DEF MenuNet
<1>4. EachOnce(n, filed) => EachOnce(m, filed)
  BY <1>1 DEF EachOnce, MenuMakes
<1>5. FormOnce(form, text, saving, n, filed) => FormOnce(form, text, saving, m, filed)
  BY <1>1 DEF FormOnce, MenuMakes
<1> QED BY <1>3, <1>4, <1>5

LEMMA MenuClick ==
  ASSUME MenuPast(hist), NEW wanted, Menu!Click(wanted)
  PROVE  /\ MenuPast(hist') /\ hist'.texts = hist.texts /\ hist'.unread = hist.unread
         /\ hist'.filed = hist.filed
BY DEF Menu!Click, MenuPast

\* The form opens, closes or is left alone, with nothing sent.
LEMMA MenuShows ==
  ASSUME MenuInv, net' = net, MenuSrv(srv'), MenuUi(ui'), ui'.saving = ui.saving,
         MenuPast(hist'), hist'.texts = hist.texts, hist'.unread = hist.unread,
         hist'.filed = hist.filed,
         \/ ui'.form = ui.form /\ ui'.fields = ui.fields
         \/ ui'.form # 0
         \/ ui'.fields.text = None /\ MenuFields(0, ui'.fields, hist.texts)
  PROVE  MenuInv'
<1>1. MenuFields(ui'.form, ui'.fields, hist.texts)
  BY DEF MenuInv, MenuFields
<1>2. ASSUME NEW n, NEW filed, FormOnce(ui.form, ui.fields.text, ui.saving, n, filed)
      PROVE  FormOnce(ui'.form, ui'.fields.text, ui'.saving, n, filed)
  BY <1>2 DEF FormOnce
<1> QED BY <1>1, <1>2 DEF MenuInv

LEMMA MenuForms ==
  ASSUME None # 0, MenuInv,
         \/ Menu!startCreate \/ Menu!startEdit \/ Menu!cancelForm \/ Menu!toggleBuilder
         \/ Menu!AskDelete \/ Menu!CancelDelete
  PROVE  MenuInv'
<1>1. MenuUi(ui) /\ MenuPast(hist) /\ MenuSrv(srv)
  BY DEF MenuInv
<1>2. CASE Menu!startCreate
  <2>1. PICK e : e = Menu!EMPTY_MENU
    OBVIOUS
  <2>2. PICK f : f = [e EXCEPT !.order = Menu!Cardinality(Menu!Cards)]
    OBVIOUS
  <2>3. ui' = [ui EXCEPT !.form = 0, !.open = None, !.fields = f] /\ UNCHANGED <<net, srv, hist>>
    BY <1>2, <2>1, <2>2 DEF Menu!startCreate, Menu!New
  <2>4. /\ MenuUi(ui') /\ ui'.saving = ui.saving /\ ui'.fields = f
    BY <1>1, <2>3 DEF MenuUi
  <2>5. f.text = None /\ MenuFields(0, f, hist.texts)
    <3>1. PICK yes \in BOOLEAN : e = [hall |-> None, text |-> None, active |-> yes, order |-> 0]
      BY <2>1 DEF Menu!EMPTY_MENU
    <3> QED BY <2>2, <3>1 DEF MenuFields
  <2> QED BY <1>1, <2>3, <2>4, <2>5, MenuShows
<1>3. CASE Menu!startEdit
  <2>1. PICK m, row, wanted :
          /\ m \in DOMAIN ui.current.menus
          /\ ui' = [ui EXCEPT !.form = m, !.open = None, !.fields = row, !.opened = row]
          /\ UNCHANGED <<net, srv>> /\ Menu!Click(wanted)
    BY <1>3 DEF Menu!startEdit, Menu!Buttons, Menu!Cards
  <2>2. MenuUi(ui') /\ ui'.saving = ui.saving /\ ui'.form # 0
    BY <1>1, <2>1 DEF MenuUi
  <2> QED BY <1>1, <2>1, <2>2, MenuClick, MenuShows
<1>4. CASE Menu!cancelForm
  <2>1. /\ UNCHANGED <<net, srv, hist>>
        /\ ui' = [ui EXCEPT !.form = None, !.fields = Menu!EMPTY_MENU, !.opened = Menu!EMPTY_MENU]
    BY <1>4 DEF Menu!cancelForm, Menu!Closed
  <2>2. MenuUi(ui') /\ ui'.saving = ui.saving /\ ui'.form # 0
    BY <1>1, <2>1 DEF MenuUi
  <2> QED BY <1>1, <2>1, <2>2, MenuShows
<1>5. CASE Menu!toggleBuilder
  <2>1. PICK m, wanted, u :
          /\ u = [ui EXCEPT !.form = None, !.fields = Menu!EMPTY_MENU, !.opened = Menu!EMPTY_MENU]
          /\ ui' = [u EXCEPT !.open = m]
          /\ UNCHANGED <<net, srv>> /\ Menu!Click(wanted)
    <3>1. PICK m \in Menu!Buttons : Menu!toggleBuilder!(m)
      BY <1>5 DEF Menu!toggleBuilder
    <3>2. PICK u : u = Menu!Closed(ui)
      OBVIOUS
    <3>3. PICK o : o = IF u.open = m THEN None ELSE m
      OBVIOUS
    <3>4. ui' = [u EXCEPT !.open = o] /\ UNCHANGED <<net, srv>> /\ Menu!Click(None)
      BY <3>1, <3>2, <3>3
    <3> QED BY <3>2, <3>4 DEF Menu!Closed
  <2>2. MenuUi(u) /\ u.saving = ui.saving /\ u.form # 0
    BY <1>1, <2>1 DEF MenuUi
  <2>3. MenuUi(ui') /\ ui'.saving = ui.saving /\ ui'.form # 0
    BY <2>1, <2>2 DEF MenuUi
  <2> QED BY <1>1, <2>1, <2>3, MenuClick, MenuShows
<1>6. CASE Menu!AskDelete \/ Menu!CancelDelete
  <2>1. PICK m : /\ ui' = [ui EXCEPT !.confirming = m] /\ UNCHANGED <<net, srv>>
                 /\ hist' = hist \/ Menu!Click(None)
    BY <1>6 DEF Menu!AskDelete, Menu!CancelDelete
  <2>2. MenuUi(ui') /\ ui'.saving = ui.saving /\ ui'.form = ui.form /\ ui'.fields = ui.fields
    BY <1>1, <2>1 DEF MenuUi
  <2>3. /\ MenuPast(hist') /\ hist'.texts = hist.texts /\ hist'.unread = hist.unread
        /\ hist'.filed = hist.filed
    BY <1>1, <2>1, MenuClick
  <2> QED BY <1>1, <2>1, <2>2, <2>3, MenuShows
<1> QED BY <1>2, <1>3, <1>4, <1>5, <1>6

LEMMA MenuTypes ==
  ASSUME MenuInv, Menu!MenuForm PROVE MenuInv'
<1> DEFINE others == {ui.fields, [ui.fields EXCEPT !.active = ~@, !.order = 0]}
<1>a. PICK h \in ui.current.halls \cup {ui.fields.hall}, rest \in others :
        Menu!MenuForm!(h, rest)
  BY DEF Menu!MenuForm
<1>b. PICK t : t = hist.texts + 1
  OBVIOUS
<1>1. /\ rest \in others /\ t = hist.texts + 1
      /\ ui' = [ui EXCEPT !.fields = [rest EXCEPT !.hall = h, !.text = t]]
      /\ hist' = [hist EXCEPT !.texts = t] /\ UNCHANGED <<net, srv>>
  BY <1>a, <1>b
<1>2. PICK f : f = [rest EXCEPT !.hall = h, !.text = t]
  OBVIOUS
<1>3. /\ MenuUi(ui') /\ ui'.saving = ui.saving /\ ui'.form = ui.form /\ ui'.fields = f
  BY <1>1, <1>2 DEF MenuInv, MenuUi
<1>4. t \in Nat /\ t \notin 1..hist.texts /\ 1..hist.texts \subseteq 1..t /\ t \in 1..t
  BY <1>1 DEF MenuInv, MenuPast
<1>5. /\ MenuPast(hist') /\ hist'.texts = t /\ hist'.filed = hist.filed /\ hist'.unread = hist.unread
  BY <1>1, <1>4 DEF MenuInv, MenuPast
<1>6. ui.form = 0 => /\ f = [hall |-> f.hall, text |-> f.text, active |-> f.active, order |-> f.order]
                     /\ f.text = t
  <2>1. SUFFICES ASSUME ui.form = 0
                 PROVE  /\ f = [hall |-> f.hall, text |-> f.text, active |-> f.active, order |-> f.order]
                        /\ f.text = t
    OBVIOUS
  <2>2. PICK g : g = ui.fields
    OBVIOUS
  <2>3. PICK on : on = ~ g.active
    OBVIOUS
  <2>4. g = [hall |-> g.hall, text |-> g.text, active |-> g.active, order |-> g.order]
    BY <2>1, <2>2 DEF MenuInv, MenuFields
  <2>5. rest = g \/ rest = [g EXCEPT !.active = on, !.order = 0]
    BY <1>1, <2>2, <2>3
  <2>6. rest = [hall |-> rest.hall, text |-> rest.text, active |-> rest.active, order |-> rest.order]
    BY <2>4, <2>5
  <2> QED BY <1>2, <2>6
<1>7. MenuFields(ui'.form, ui'.fields, t)
  BY <1>3, <1>4, <1>6 DEF MenuFields
<1>8. MenuNet(net, t)
  BY <1>4 DEF MenuInv, MenuNet
<1>9. ASSUME ~ hist.unread
      PROVE  FormOnce(ui.form, f.text, ui.saving, net, hist.filed)
  <2>1. ui.form = 0 => ~ Filed(hist.filed, f.text)
    BY <1>4, <1>6 DEF MenuInv, MenuPast
  <2>2. ui.form = 0 => \A j : MenuMakes(net, j) => net[j].arg.row.text # f.text
    BY <1>4, <1>6 DEF MenuInv, MenuNet
  <2>3. ~ ui.saving => \A j : ~ MenuSaves(net, j)
    BY <1>9 DEF MenuInv, FormOnce
  <2> QED BY <2>1, <2>2, <2>3 DEF FormOnce
<1> QED BY <1>1, <1>3, <1>5, <1>7, <1>8, <1>9 DEF MenuInv

LEMMA MenuSavesForm ==
  ASSUME MenuInv, Menu!save PROVE MenuInv'
<1>1. /\ ui.fields.text # None /\ ~ ui.saving /\ ui' = [ui EXCEPT !.saving = TRUE] /\ srv' = srv
      /\ Menu!Click(None)
  BY DEF Menu!save, Menu!MaySave
<1>2. \E kind, arg :
        /\ kind \in {"create", "update"}
        /\ net' = Sent(net, kind, arg) /\ arg.after = "save"
        /\ (kind = "create") => ui.form = 0 /\ arg.row = ui.fields
  <2>1. CASE ui.form = 0
    <3>1. PICK arg : arg = [after |-> "save", row |-> ui.fields]
      OBVIOUS
    <3>2. net' = Sent(net, "create", arg) /\ arg.after = "save" /\ arg.row = ui.fields
      BY <2>1, <3>1, MenuCalls DEF Menu!save, Menu!New
    <3> QED BY <2>1, <3>2
  <2>2. CASE ui.form # 0
    <3>1. PICK arg : arg = [after |-> "save", menu |-> ui.form, row |-> ui.fields,
                            base |-> ui.opened, asked |-> DOMAIN ui.fields]
      OBVIOUS
    <3>2. net' = Sent(net, "update", arg) /\ arg.after = "save"
      BY <2>2, <3>1, MenuCalls DEF Menu!save, Menu!New
    <3> QED BY <3>2
  <2> QED BY <2>1, <2>2
<1>3. PICK kind, arg :
        /\ kind \in {"create", "update"}
        /\ net' = Sent(net, kind, arg) /\ arg.after = "save"
        /\ (kind = "create") => ui.form = 0 /\ arg.row = ui.fields
  BY <1>2
<1>4. PICK last : Asks(net, net', last, kind, arg)
  BY <1>3, ProperSent DEF MenuInv, MenuNet
<1>5. /\ Proper(net') /\ DOMAIN net' = DOMAIN net \cup {last} /\ last \notin DOMAIN net
      /\ \A j : j \in DOMAIN net => net'[j] = net[j]
      /\ net'[last].kind = kind /\ net'[last].arg = arg /\ net'[last].here
      /\ ~ net'[last].ok
  BY <1>4 DEF Asks
<1>6. /\ \A j : MenuMakes(net', j) <=> MenuMakes(net, j) \/ (j = last /\ kind = "create")
      /\ \A j : MenuSaves(net', j) <=> MenuSaves(net, j) \/ j = last
      /\ \A j : MenuMakes(net, j) => net'[j] = net[j]
  BY <1>3, <1>5 DEF MenuMakes, MenuSaves
<1>7. /\ MenuPast(hist') /\ hist'.texts = hist.texts /\ hist'.unread = hist.unread
      /\ hist'.filed = hist.filed
  BY <1>1, MenuClick DEF MenuInv
<1>8. MenuUi(ui') /\ ui'.form = ui.form /\ ui'.fields = ui.fields /\ ui'.saving
  BY <1>1 DEF MenuInv, MenuUi
<1>9. kind = "create" => ui.form = 0 /\ arg.row.text = ui.fields.text /\ arg.row.text \in 1..hist.texts
  BY <1>1, <1>3 DEF MenuInv, MenuFields
<1>10. MenuNet(net', hist.texts)
  <2>1. \A j : MenuMakes(net', j) => net'[j].arg.row.text \in 1..hist.texts
    BY <1>5, <1>6, <1>9 DEF MenuInv, MenuNet
  <2>2. ASSUME NEW j \in DOMAIN net'
        PROVE  /\ net'[j].kind \in Menu!Kinds
               /\ net'[j].kind = "refresh" /\ net'[j].ok => 0 \notin DOMAIN net'[j].data.menus
               /\ net'[j].kind = "part" => net'[j].arg = [after |-> "copy", left |-> net'[j].arg.left,
                                            tree |-> net'[j].arg.tree, copy |-> net'[j].arg.copy]
    <3>1. CASE j = last
      BY <1>3, <1>5, <3>1 DEF Menu!Kinds
    <3>2. CASE j \in DOMAIN net
      BY <1>5, <3>2 DEF MenuInv, MenuNet
    <3> QED BY <1>5, <3>1, <3>2
  <2> QED BY <1>5, <2>1, <2>2 DEF MenuNet
<1>11. ASSUME ~ hist.unread
       PROVE  /\ EachOnce(net', hist.filed)
              /\ FormOnce(ui.form, ui.fields.text, TRUE, net', hist.filed)
  <2>1. EachOnce(net, hist.filed) /\ FormOnce(ui.form, ui.fields.text, ui.saving, net, hist.filed)
    BY <1>11 DEF MenuInv
  <2>2. \A j : ~ MenuSaves(net, j)
    BY <1>1, <2>1 DEF FormOnce
  <2>3. ui.form = 0 => /\ ~ Filed(hist.filed, ui.fields.text)
                       /\ \A j : MenuMakes(net, j) => net[j].arg.row.text # ui.fields.text
    BY <1>1, <2>1, <2>2 DEF FormOnce, MenuCloses
  <2>4. ASSUME NEW j, NEW k, MenuMakes(net', j), MenuMakes(net', k),
               net'[j].arg.row.text = net'[k].arg.row.text
        PROVE  j = k
    BY <1>5, <1>6, <1>9, <2>1, <2>3, <2>4 DEF EachOnce
  <2>5. ASSUME NEW j, MenuMakes(net', j), ~ net'[j].ok
        PROVE  ~ Filed(hist.filed, net'[j].arg.row.text)
    BY <1>5, <1>6, <1>9, <2>1, <2>3, <2>5 DEF EachOnce
  <2>6. EachOnce(net', hist.filed)
    BY <1>6, <2>1, <2>2, <2>4, <2>5 DEF EachOnce
  <2>7. ASSUME ui.form = 0, NEW j, MenuMakes(net', j), net'[j].arg.row.text = ui.fields.text
        PROVE  MenuSaves(net', j)
    BY <1>6, <2>3, <2>7
  <2> QED BY <2>3, <2>6, <2>7 DEF FormOnce
<1> QED BY <1>1, <1>7, <1>8, <1>10, <1>11 DEF MenuInv

\* The buttons of the cards.
LEMMA MenuCards ==
  ASSUME MenuInv, Menu!toggleActive \/ Menu!remove \/ Menu!duplicate \/ Menu!move PROVE MenuInv'
<1>1. MenuUi(ui) /\ MenuPast(hist) /\ MenuSrv(srv) /\ MenuNet(net, hist.texts) /\ Proper(net)
  BY DEF MenuInv, MenuNet
<1>2. PICK m, wanted :
        /\ ui' = [ui EXCEPT !.busy = m] \/ ui' = [ui EXCEPT !.duplicating = m]
        /\ srv' = srv /\ Menu!Click(wanted)
  BY DEF Menu!toggleActive, Menu!remove, Menu!duplicate, Menu!move
<1>3. MenuUi(ui') /\ ui'.saving = ui.saving /\ ui'.form = ui.form /\ ui'.fields = ui.fields
  <2>1. CASE ui' = [ui EXCEPT !.busy = m]
    BY <1>1, <2>1 DEF MenuUi
  <2>2. CASE ui' = [ui EXCEPT !.duplicating = m]
    BY <1>1, <2>2 DEF MenuUi
  <2> QED BY <1>2, <2>1, <2>2
<1>4. /\ MenuPast(hist') /\ hist'.texts = hist.texts /\ hist'.unread = hist.unread
      /\ hist'.filed = hist.filed
  BY <1>1, <1>2, MenuClick
<1>5. CASE Menu!toggleActive \/ Menu!remove \/ Menu!duplicate
  <2>1. PICK kind, arg :
          kind \in {"update", "delete", "copy"} /\ net' = Sent(net, kind, arg) /\ arg.after # "save"
    <3>1. CASE Menu!toggleActive
      <4>1. PICK k \in Menu!Buttons : Menu!toggleActive!(k)
        BY <3>1 DEF Menu!toggleActive
      <4>2. PICK row : row = [Menu!menuRowToPayload(k) EXCEPT !.active = ~Menu!Row(k).active]
        OBVIOUS
      <4>3. PICK arg : arg = [after |-> "toggle", menu |-> k, asked |-> {"active"},
                              base |-> Menu!Row(k), row |-> row]
        OBVIOUS
      <4>4. net' = Sent(net, "update", arg) /\ arg.after = "toggle"
        BY <4>1, <4>2, <4>3, MenuCalls
      <4> QED BY <4>4
    <3>2. CASE Menu!remove
      <4>1. PICK k : net' = Sent(net, "delete", [after |-> "delete", menu |-> k, open |-> ui.open])
        BY <3>2, MenuCalls DEF Menu!remove
      <4>2. PICK arg : arg = [after |-> "delete", menu |-> k, open |-> ui.open]
        OBVIOUS
      <4>3. net' = Sent(net, "delete", arg) /\ arg.after = "delete"
        BY <4>1, <4>2
      <4> QED BY <4>3
    <3>3. CASE Menu!duplicate
      <4>1. PICK k \in Menu!Buttons : Menu!duplicate!(k)
        BY <3>3 DEF Menu!duplicate
      <4>2. PICK row : row = [Menu!Row(k) EXCEPT !.active = FALSE, !.order = Menu!Cardinality(Menu!Cards)]
        OBVIOUS
      <4>3. PICK arg : arg = [after |-> "copy", left |-> Menu!Pieces(k),
                              tree |-> ui.current.menus[k].parts, row |-> row]
        OBVIOUS
      <4>4. net' = Sent(net, "copy", arg) /\ arg.after = "copy"
        BY <4>1, <4>2, <4>3, MenuCalls
      <4> QED BY <4>4
    <3> QED BY <1>5, <3>1, <3>2, <3>3
  <2>2. PICK last : Asks(net, net', last, kind, arg)
    BY <1>1, <2>1, ProperSent
  <2>3. /\ MenuNet(net', hist.texts)
        /\ EachOnce(net, hist.filed) => EachOnce(net', hist.filed)
        /\ FormOnce(ui.form, ui.fields.text, ui.saving, net, hist.filed)
             => FormOnce(ui.form, ui.fields.text, ui.saving, net', hist.filed)
    BY <1>1, <2>1, <2>2, MenuAsk
  <2> QED BY <1>2, <1>3, <1>4, <2>3 DEF MenuInv
<1>6. CASE Menu!move
  <2>1. PICK one, other, m1 :
          /\ m1 = Sent(net, "swap", one) /\ net' = Sent(m1, "swap", other)
          /\ one.after # "save" /\ other.after # "save"
    <3>1. PICK p \in Menu!Neighbours(Menu!Shown) :
            net' = Sent(Sent(net, "swap", Menu!Swap(p[1], p[2])), "swap", Menu!Swap(p[2], p[1]))
      BY <1>6, MenuCalls DEF Menu!move
    <3>2. \A a, b : Menu!Swap(a, b).after = "move"
      <4> TAKE a, b
      <4>1. PICK row : row = [Menu!menuRowToPayload(a) EXCEPT !.order = Menu!Place(a, b)]
        OBVIOUS
      <4>2. Menu!Swap(a, b) = [after |-> "move", click |-> hist.clicks, menu |-> a, asked |-> {"order"},
                               base |-> Menu!Row(a), row |-> row]
        BY <4>1 DEF Menu!Swap
      <4> QED BY <4>2
    <3>3. PICK one, other : one = Menu!Swap(p[1], p[2]) /\ other = Menu!Swap(p[2], p[1])
      OBVIOUS
    <3>4. one.after = "move" /\ other.after = "move"
      BY <3>2, <3>3
    <3> QED BY <3>1, <3>3, <3>4
  <2>2. PICK last1 : Asks(net, m1, last1, "swap", one)
    BY <1>1, <2>1, ProperSent
  <2>3. PICK last2 : Asks(m1, net', last2, "swap", other)
    <3>1. Proper(m1)
      BY <2>2 DEF Asks
    <3> QED BY <2>1, <3>1, ProperSent
  <2>4. /\ MenuNet(m1, hist.texts)
        /\ EachOnce(net, hist.filed) => EachOnce(m1, hist.filed)
        /\ FormOnce(ui.form, ui.fields.text, ui.saving, net, hist.filed)
             => FormOnce(ui.form, ui.fields.text, ui.saving, m1, hist.filed)
    BY <1>1, <2>1, <2>2, MenuAsk
  <2>5. /\ MenuNet(net', hist.texts)
        /\ EachOnce(m1, hist.filed) => EachOnce(net', hist.filed)
        /\ FormOnce(ui.form, ui.fields.text, ui.saving, m1, hist.filed)
             => FormOnce(ui.form, ui.fields.text, ui.saving, net', hist.filed)
    BY <2>1, <2>3, <2>4, MenuAsk
  <2> QED BY <1>2, <1>3, <1>4, <2>4, <2>5 DEF MenuInv
<1> QED BY <1>5, <1>6

LEMMA MenuFinally ==
  ASSUME NEW u, MenuUi(u), NEW after, NEW v, v = Menu!Finally(u, after)
  PROVE  /\ MenuUi(v) /\ v.form = u.form /\ v.fields = u.fields
         /\ v.saving = IF after = "save" THEN FALSE ELSE u.saving
<1>1. CASE after = "save"
  <2>1. v = [u EXCEPT !.saving = FALSE]
    BY <1>1 DEF Menu!Finally
  <2> QED BY <1>1, <2>1 DEF MenuUi
<1>2. CASE after = "copy"
  <2>1. v = [u EXCEPT !.duplicating = None]
    BY <1>2 DEF Menu!Finally
  <2> QED BY <1>2, <2>1 DEF MenuUi
<1>3. CASE after \notin {"save", "copy"}
  <2>1. v = [u EXCEPT !.busy = None]
    BY <1>3 DEF Menu!Finally
  <2> QED BY <1>3, <2>1 DEF MenuUi
<1> QED BY <1>1, <1>2, <1>3

\* A call that does not close the form is over, for good.
LEMMA MenuOver ==
  ASSUME MenuInv, NEW i \in DOMAIN net, UNCHANGED <<srv, hist>>, ui' = Menu!Failed(ui, net[i]),
         ~ MenuCloses(net, i), NEW n, i \in DOMAIN n, n[i] = net[i], MenuNet(n, hist.texts),
         ~ hist.unread => /\ EachOnce(n, hist.filed)
                          /\ FormOnce(ui.form, ui.fields.text, ui.saving, n, hist.filed),
         net' = Settled(n, i)
  PROVE  MenuInv'
<1>1. /\ MenuUi(ui') /\ ui'.form = ui.form /\ ui'.fields = ui.fields
      /\ ui'.saving = ui.saving \/ (ui'.saving = FALSE /\ MenuSaves(net, i))
  <2>1. CASE ~ net[i].ok /\ net[i].here
    <3>1. ui' = Menu!Finally(ui, net[i].arg.after)
      BY <2>1 DEF Menu!Failed
    <3>2. /\ MenuUi(ui') /\ ui'.form = ui.form /\ ui'.fields = ui.fields
          /\ ui'.saving = IF net[i].arg.after = "save" THEN FALSE ELSE ui.saving
      <4>1. MenuUi(ui)
        BY DEF MenuInv
      <4>2. PICK v, after : v = ui' /\ after = net[i].arg.after
        OBVIOUS
      <4>3. v = Menu!Finally(ui, after)
        BY <3>1, <4>2
      <4>4. /\ MenuUi(v) /\ v.form = ui.form /\ v.fields = ui.fields
            /\ v.saving = IF after = "save" THEN FALSE ELSE ui.saving
        BY <4>1, <4>3, MenuFinally
      <4> QED BY <4>2, <4>4
    <3> QED BY <2>1, <3>2 DEF MenuSaves
  <2>2. CASE net[i].ok \/ ~ net[i].here
    BY <2>2 DEF Menu!Failed, MenuInv
  <2> QED BY <2>1, <2>2
<1>2. Settles(n, net', i)
  BY ProperSettled DEF MenuNet
<1>3. ui'.saving \in BOOLEAN
  BY <1>1 DEF MenuUi
<1>4. (MenuSaves(n, i) <=> MenuSaves(net, i)) /\ (MenuCloses(n, i) <=> MenuCloses(net, i))
  BY DEF MenuSaves, MenuCloses
<1>5. MenuNet(net', hist.texts)
  BY <1>2, MenuSettle
<1>6. ASSUME ~ hist.unread
      PROVE  /\ EachOnce(net', hist.filed)
             /\ FormOnce(ui.form, ui.fields.text, ui'.saving, net', hist.filed)
  <2>1. CASE ui'.saving = ui.saving
    BY <1>2, <1>3, <1>4, <1>6, <2>1, MenuSettle
  <2>2. CASE ui'.saving = FALSE /\ MenuSaves(net, i)
    <3>1. PICK more \in BOOLEAN : more = ui'.saving
      BY <1>3
    <3>2. more = ui.saving \/ MenuSaves(n, i)
      BY <1>4, <2>2
    <3>3. /\ EachOnce(net', hist.filed)
          /\ FormOnce(ui.form, ui.fields.text, more, net', hist.filed)
      BY <1>2, <1>4, <1>6, <3>2, MenuSettle
    <3> QED BY <3>1, <3>3
  <2> QED BY <1>1, <2>1, <2>2
<1> QED BY <1>1, <1>5, <1>6 DEF MenuInv

LEMMA MenuThen ==
  ASSUME NEW n, Proper(n), NEW i \in DOMAIN n, NEW kind, NEW arg, NEW m, m = Menu!Then(n, i, kind, arg)
  PROVE  \E last : Follows(n, m, i, last, kind, arg)
<1>1. m = [Sent(Settled(n, i), kind, arg) EXCEPT ![Len(n)].here = n[i].here]
  BY MenuCalls DEF Menu!Then
<1> QED BY <1>1, ProperFollowed

\* A call is over and another of its handler follows.
LEMMA MenuGoesOn ==
  ASSUME MenuInv, NEW i \in DOMAIN net, UNCHANGED <<srv, hist>>, ui' = ui,
         NEW kind \in {"refresh", "part"}, NEW arg, net' = Menu!Then(net, i, kind, arg),
         arg.after = "save" => net[i].arg.after = "save",
         \/ kind = "refresh" /\ arg = net[i].arg
         \/ net[i].kind \in {"copy", "part"},
         kind = "part" => arg = [after |-> "copy", left |-> arg.left, tree |-> arg.tree,
                                 copy |-> arg.copy]
  PROVE  MenuInv'
<1>1. PICK last : Follows(net, net', i, last, kind, arg)
  BY MenuThen DEF MenuInv, MenuNet
<1>2. /\ MenuNet(net', hist.texts)
      /\ EachOnce(net, hist.filed) => EachOnce(net', hist.filed)
      /\ FormOnce(ui.form, ui.fields.text, ui.saving, net, hist.filed)
           => FormOnce(ui.form, ui.fields.text, ui.saving, net', hist.filed)
  BY <1>1, MenuFollow DEF MenuInv
<1> QED BY <1>2 DEF MenuInv

\* The calls that go under another name make nothing and close nothing.
LEMMA MenuRename ==
  ASSUME NEW n, NEW m, NEW J, Renames(n, m, J, "stray"), \A j \in J : n[j].kind = "swap",
         J \subseteq DOMAIN n,
         NEW texts, NEW filed, NEW form, NEW text, NEW saving, MenuNet(n, texts)
  PROVE  /\ MenuNet(m, texts)
         /\ EachOnce(n, filed) => EachOnce(m, filed)
         /\ FormOnce(form, text, saving, n, filed) => FormOnce(form, text, saving, m, filed)
<1>1. /\ Proper(m) /\ DOMAIN m = DOMAIN n
      /\ \A j \in DOMAIN n : /\ m[j].arg = n[j].arg /\ m[j].here = n[j].here /\ m[j].ok = n[j].ok
                             /\ m[j].data = n[j].data
                             /\ m[j].kind = n[j].kind \/ (m[j].kind = "stray" /\ n[j].kind = "swap")
  BY DEF Renames
<1>2. \A j : /\ MenuMakes(m, j) <=> MenuMakes(n, j)
             /\ MenuSaves(m, j) <=> MenuSaves(n, j)
             /\ MenuCloses(n, j) => MenuCloses(m, j)
  BY <1>1 DEF MenuMakes, MenuSaves, MenuCloses
<1>3. MenuNet(m, texts)
  <2>1. \A j : MenuMakes(m, j) => m[j].arg.row.text \in 1..texts
    BY <1>1, <1>2 DEF MenuNet, MenuMakes
  <2>2. ASSUME NEW j \in DOMAIN m
        PROVE  /\ m[j].kind \in Menu!Kinds
               /\ m[j].kind = "refresh" /\ m[j].ok => 0 \notin DOMAIN m[j].data.menus
               /\ m[j].kind = "part" => m[j].arg = [after |-> "copy", left |-> m[j].arg.left,
                                            tree |-> m[j].arg.tree, copy |-> m[j].arg.copy]
    BY <1>1, <2>2 DEF MenuNet, Menu!Kinds
  <2> QED BY <1>1, <2>1, <2>2 DEF MenuNet
<1>4. EachOnce(n, filed) => EachOnce(m, filed)
  BY <1>1, <1>2 DEF EachOnce, MenuMakes
<1>5. FormOnce(form, text, saving, n, filed) => FormOnce(form, text, saving, m, filed)
  BY <1>1, <1>2 DEF FormOnce, MenuMakes
<1> QED BY <1>3, <1>4, <1>5

LEMMA MenuAnswered ==
  ASSUME MenuInv, Menu!UpdateAnswered \/ Menu!MoveAnswered \/ Menu!StrayAnswered PROVE MenuInv'
<1>1. MenuNet(net, hist.texts) /\ Proper(net)
  BY DEF MenuInv, MenuNet
<1>2. CASE Menu!StrayAnswered
  <2>1. PICK i \in DOMAIN net : /\ net[i].kind = "stray" /\ net' = Settled(net, i)
                                /\ UNCHANGED <<ui, srv, hist>>
    BY <1>2, MenuCalls DEF Menu!StrayAnswered, Menu!Answered
  <2>2. Settles(net, net', i) /\ ~ MenuCloses(net, i)
    BY <1>1, <2>1, ProperSettled DEF MenuCloses
  <2>3. ui.saving \in BOOLEAN /\ ui.saving = ui.saving
    BY DEF MenuInv, MenuUi
  <2> QED BY <1>1, <2>1, <2>2, <2>3, MenuSettle DEF MenuInv
<1>3. CASE Menu!UpdateAnswered
  <2>1. PICK i \in DOMAIN net :
          /\ net[i].kind \in {"create", "update", "delete"} /\ net' = Menu!ThenRefresh(net, i)
          /\ ui' = Menu!Failed(ui, net[i]) /\ UNCHANGED <<srv, hist>>
    BY <1>3 DEF Menu!UpdateAnswered, Menu!Answered
  <2>2. CASE net[i].ok
    <3>1. net' = Menu!Then(net, i, "refresh", net[i].arg) /\ ui' = ui
      BY <2>1, <2>2 DEF Menu!ThenRefresh, Menu!Failed
    <3> QED BY <2>1, <3>1, MenuGoesOn
  <2>3. CASE ~ net[i].ok
    <3>1. net' = Settled(net, i) /\ ~ MenuCloses(net, i)
      BY <2>1, <2>3, MenuCalls DEF Menu!ThenRefresh, MenuCloses
    <3>2. ~ hist.unread => /\ EachOnce(net, hist.filed)
                           /\ FormOnce(ui.form, ui.fields.text, ui.saving, net, hist.filed)
      BY DEF MenuInv
    <3> QED BY <1>1, <2>1, <3>1, <3>2, MenuOver
  <2> QED BY <2>2, <2>3
<1>4. CASE Menu!MoveAnswered
  <2>1. PICK i \in DOMAIN net :
          /\ net[i].kind = "swap" /\ net' = Menu!AfterHalf(net, i)
          /\ ui' = Menu!Failed(ui, net[i]) /\ UNCHANGED <<srv, hist>>
    BY <1>4 DEF Menu!MoveAnswered, Menu!Answered
  <2>2. ~ MenuCloses(net, i)
    BY <2>1 DEF MenuCloses
  <2>3. ~ hist.unread => /\ EachOnce(net, hist.filed)
                         /\ FormOnce(ui.form, ui.fields.text, ui.saving, net, hist.filed)
    BY DEF MenuInv
  <2>4. CASE ~ net[i].ok
    <3>1. PICK J : J = Menu!OtherHalf(net, i)
      OBVIOUS
    <3>2. J \subseteq DOMAIN net /\ i \notin J /\ \A j \in J : net[j].kind = "swap"
      BY <3>1 DEF Menu!OtherHalf
    <3>3. PICK n : n = [j \in DOMAIN net |-> IF j \in J THEN [net[j] EXCEPT !.kind = "stray"]
                                                         ELSE net[j]]
      OBVIOUS
    <3>4. net' = Settled(n, i)
      BY <2>1, <2>4, <3>1, <3>3, MenuCalls DEF Menu!AfterHalf
    <3>5. Renames(net, n, J, "stray")
      BY <1>1, <3>3, ProperRenamed
    <3>6. /\ MenuNet(n, hist.texts)
          /\ ~ hist.unread => /\ EachOnce(n, hist.filed)
                              /\ FormOnce(ui.form, ui.fields.text, ui.saving, n, hist.filed)
      BY <1>1, <2>3, <3>2, <3>5, MenuRename
    <3>7. i \in DOMAIN n /\ n[i] = net[i]
      BY <3>2, <3>3
    <3> QED BY <2>1, <2>2, <3>4, <3>6, <3>7, MenuOver
  <2>5. CASE net[i].ok /\ Menu!OtherHalf(net, i) # {}
    <3>1. net' = Settled(net, i)
      BY <2>1, <2>5, MenuCalls DEF Menu!AfterHalf
    <3> QED BY <1>1, <2>1, <2>2, <2>3, <3>1, MenuOver
  <2>6. CASE net[i].ok /\ Menu!OtherHalf(net, i) = {}
    <3>1. net' = Menu!Then(net, i, "refresh", net[i].arg) /\ ui' = ui
      BY <2>1, <2>6 DEF Menu!AfterHalf, Menu!ThenRefresh, Menu!Failed
    <3> QED BY <2>1, <3>1, MenuGoesOn
  <2> QED BY <2>4, <2>5, <2>6
<1> QED BY <1>2, <1>3, <1>4

LEMMA MenuCopies ==
  ASSUME MenuInv, Menu!CopyAnswered PROVE MenuInv'
<1>1. MenuNet(net, hist.texts) /\ Proper(net)
  BY DEF MenuInv, MenuNet
<1>2. PICK i \in Menu!Answered(net, "copy") \cup Menu!Answered(net, "part") : Menu!CopyAnswered!(i)
  BY DEF Menu!CopyAnswered
<1> DEFINE c == net[i]
<1>3. PICK a : a = IF c.kind = "copy"
                   THEN [after |-> "copy", left |-> c.arg.left, tree |-> c.arg.tree, copy |-> c.data]
                   ELSE [c.arg EXCEPT !.left = Menu!Tail(@)]
  OBVIOUS
<1>4. /\ i \in DOMAIN net /\ c.kind \in {"copy", "part"}
      /\ net' = IF c.ok THEN Menu!Then(net, i, IF a.left = << >> THEN "refresh" ELSE "part", a)
                ELSE Settled(net, i)
      /\ ui' = Menu!Failed(ui, c) /\ UNCHANGED <<srv, hist>>
  BY <1>2, <1>3, MenuCalls DEF Menu!Answered
<1>5. a = [after |-> "copy", left |-> a.left, tree |-> a.tree, copy |-> a.copy]
  <2>1. CASE c.kind = "copy"
    BY <1>3, <2>1
  <2>2. CASE c.kind = "part"
    <3>1. PICK b, rest : b = c.arg /\ rest = Menu!Tail(b.left)
      OBVIOUS
    <3>2. b = [after |-> "copy", left |-> b.left, tree |-> b.tree, copy |-> b.copy]
      BY <1>1, <1>4, <2>2, <3>1 DEF MenuNet
    <3>3. a = [b EXCEPT !.left = rest]
      BY <1>3, <2>2, <3>1
    <3> QED BY <3>2, <3>3
  <2> QED BY <1>4, <2>1, <2>2
<1>6. CASE c.ok
  <2>1. PICK kind \in {"refresh", "part"} : kind = IF a.left = << >> THEN "refresh" ELSE "part"
    OBVIOUS
  <2>2. net' = Menu!Then(net, i, kind, a) /\ ui' = ui
    BY <1>4, <1>6, <2>1 DEF Menu!Failed
  <2>3. a.after # "save"
    BY <1>5
  <2> QED BY <1>4, <1>5, <2>2, <2>3, MenuGoesOn
<1>7. CASE ~ c.ok
  <2>1. net' = Settled(net, i) /\ ~ MenuCloses(net, i)
    BY <1>4, <1>7 DEF MenuCloses
  <2>2. ~ hist.unread => /\ EachOnce(net, hist.filed)
                         /\ FormOnce(ui.form, ui.fields.text, ui.saving, net, hist.filed)
    BY DEF MenuInv
  <2> QED BY <1>1, <1>4, <2>1, <2>2, MenuOver
<1> QED BY <1>6, <1>7

\* What a handler does after the read.
LEMMA MenuDone ==
  ASSUME None # 0, NEW u, MenuUi(u), NEW a, NEW v, v = Menu!Done(u, a)
  PROVE  /\ MenuUi(v) /\ v.saving = u.saving
         /\ a.after = "save" => v.form # 0
         /\ a.after # "save" => v.form = u.form /\ v.fields = u.fields
<1>1. CASE a.after = "save"
  <2>1. v = [u EXCEPT !.form = None, !.fields = Menu!EMPTY_MENU, !.opened = Menu!EMPTY_MENU]
    BY <1>1 DEF Menu!Done, Menu!Closed
  <2> QED BY <1>1, <2>1 DEF MenuUi
<1>2. CASE a.after = "delete"
  <2>1. PICK o : o = IF a.open = a.menu THEN None ELSE u.open
    OBVIOUS
  <2>2. v = [u EXCEPT !.confirming = None, !.open = o]
    BY <1>2, <2>1 DEF Menu!Done
  <2> QED BY <1>2, <2>2 DEF MenuUi
<1>3. CASE a.after = "copy"
  <2>1. v = [u EXCEPT !.open = a.copy]
    BY <1>3 DEF Menu!Done
  <2> QED BY <1>3, <2>1 DEF MenuUi
<1>4. CASE a.after \notin {"save", "delete", "copy"}
  BY <1>4 DEF Menu!Done
<1> QED BY <1>1, <1>2, <1>3, <1>4

LEMMA MenuReads ==
  ASSUME None # 0, MenuInv, Menu!refresh PROVE MenuInv'
<1>1. MenuUi(ui) /\ MenuPast(hist) /\ MenuNet(net, hist.texts) /\ Proper(net)
  BY DEF MenuInv, MenuNet
<1>2. PICK i \in Menu!Answered(net, "refresh") : Menu!refresh!(i)
  BY DEF Menu!refresh
<1> DEFINE c == net[i]
<1>3. PICK seen : seen = IF c.ok THEN [ui EXCEPT !.current = c.data] ELSE ui
  OBVIOUS
<1>4. PICK un, copies : /\ un = (hist.unread \/ ~ c.ok)
                        /\ copies = IF c.ok /\ c.here /\ c.arg.after = "copy"
                                    THEN hist.copies \cup {[menu |-> c.arg.copy, tree |-> c.arg.tree]}
                                    ELSE hist.copies
  OBVIOUS
<1>5. /\ i \in DOMAIN net /\ c.kind = "refresh" /\ net' = Settled(net, i) /\ srv' = srv
      /\ ui' = IF c.here THEN Menu!Finally(IF c.ok THEN Menu!Done(seen, c.arg) ELSE seen, c.arg.after)
               ELSE seen
      /\ hist' = [hist EXCEPT !.unread = un, !.copies = copies]
  BY <1>2, <1>3, <1>4, MenuCalls DEF Menu!Answered
<1>6. MenuUi(seen) /\ seen.form = ui.form /\ seen.fields = ui.fields /\ seen.saving = ui.saving
  <2>1. CASE c.ok
    <3>1. 0 \notin DOMAIN c.data.menus
      BY <1>1, <1>5, <2>1 DEF MenuNet
    <3> QED BY <1>1, <1>3, <2>1, <3>1 DEF MenuUi
  <2>2. CASE ~ c.ok
    BY <1>1, <1>3, <2>2
  <2> QED BY <2>1, <2>2
<1>7. /\ MenuPast(hist') /\ hist'.texts = hist.texts /\ hist'.filed = hist.filed
      /\ hist'.unread = un
  <2>1. un \in BOOLEAN
    BY <1>4
  <2> QED BY <1>1, <1>5, <2>1 DEF MenuPast
<1>8. Settles(net, net', i)
  BY <1>1, <1>5, ProperSettled
<1>9. MenuNet(net', hist.texts)
  <2>1. ui.saving \in BOOLEAN /\ ui.saving = ui.saving
    BY <1>1 DEF MenuUi
  <2> QED BY <1>1, <1>5, <1>8, <2>1, MenuSettle
<1>10. PICK done : done = IF c.ok THEN Menu!Done(seen, c.arg) ELSE seen
  OBVIOUS
<1>11. /\ MenuUi(done) /\ done.saving = ui.saving
       /\ c.ok /\ c.arg.after = "save" => done.form # 0
       /\ ~ c.ok \/ c.arg.after # "save" => done.form = ui.form /\ done.fields = ui.fields
  <2>1. CASE c.ok
    <3>1. PICK a : a = c.arg
      OBVIOUS
    <3>2. done = Menu!Done(seen, a)
      BY <1>10, <2>1, <3>1
    <3>3. /\ MenuUi(done) /\ done.saving = seen.saving
          /\ a.after = "save" => done.form # 0
          /\ a.after # "save" => done.form = seen.form /\ done.fields = seen.fields
      BY <1>6, <3>2, MenuDone
    <3> QED BY <1>6, <2>1, <3>1, <3>3
  <2>2. CASE ~ c.ok
    BY <1>6, <1>10, <2>2
  <2> QED BY <2>1, <2>2
<1>12. CASE ~ c.here
  <2>1. ui' = seen /\ ~ MenuSaves(net, i) /\ ~ MenuCloses(net, i)
    BY <1>5, <1>12 DEF MenuSaves, MenuCloses
  <2>2. ASSUME ~ un
        PROVE  /\ EachOnce(net', hist.filed)
               /\ FormOnce(ui.form, ui.fields.text, ui.saving, net', hist.filed)
    <3>1. /\ EachOnce(net, hist.filed)
          /\ FormOnce(ui.form, ui.fields.text, ui.saving, net, hist.filed)
      BY <1>4, <2>2 DEF MenuInv
    <3>2. ui.saving \in BOOLEAN /\ ui.saving = ui.saving
      BY <1>1 DEF MenuUi
    <3> QED BY <1>1, <1>5, <1>8, <2>1, <3>1, <3>2, MenuSettle
  <2>3. MenuFields(ui'.form, ui'.fields, hist.texts)
    BY <1>6, <2>1 DEF MenuInv
  <2>4. MenuUi(ui') /\ MenuSrv(srv')
    BY <1>5, <1>6, <2>1 DEF MenuInv
  <2>5. ~ hist'.unread => /\ EachOnce(net', hist'.filed)
                          /\ FormOnce(ui'.form, ui'.fields.text, ui'.saving, net', hist'.filed)
    BY <1>6, <1>7, <2>1, <2>2
  <2> QED BY <1>7, <1>9, <2>3, <2>4, <2>5 DEF MenuInv
<1>13. CASE c.here
  <2>1. ui' = Menu!Finally(done, c.arg.after)
    BY <1>5, <1>10, <1>13
  <2>2. /\ MenuUi(ui') /\ ui'.form = done.form /\ ui'.fields = done.fields
        /\ ui'.saving = IF c.arg.after = "save" THEN FALSE ELSE ui.saving
    BY <1>11, <2>1, MenuFinally
  <2>3. MenuFields(ui'.form, ui'.fields, hist.texts)
    BY <1>11, <2>2 DEF MenuInv, MenuFields
  <2>4. MenuSaves(net, i) <=> c.arg.after = "save"
    BY <1>5, <1>13 DEF MenuSaves
  <2>5. ASSUME ~ un
        PROVE  /\ EachOnce(net', hist.filed)
               /\ FormOnce(ui'.form, ui'.fields.text, ui'.saving, net', hist.filed)
    <3>1. /\ EachOnce(net, hist.filed) /\ c.ok
          /\ FormOnce(ui.form, ui.fields.text, ui.saving, net, hist.filed)
      BY <1>4, <2>5 DEF MenuInv
    <3>2. CASE c.arg.after = "save"
      <4>1. EachOnce(net', hist.filed)
        <5>1. ui.saving \in BOOLEAN /\ ui.saving = ui.saving
          BY <1>1 DEF MenuUi
        <5> QED BY <1>1, <1>5, <1>8, <3>1, <5>1, MenuSettle
      <4>2. ui'.saving = FALSE /\ ui'.form # 0
        BY <1>11, <2>2, <3>1, <3>2
      <4>3. \A j : ~ MenuSaves(net', j)
        <5>1. \A j : MenuSaves(net', j) => MenuSaves(net, From(i, j)) /\ From(i, j) # i
          BY <1>8 DEF Settles, MenuSaves
        <5> QED BY <2>4, <3>1, <3>2, <5>1 DEF EachOnce
      <4> QED BY <4>1, <4>2, <4>3 DEF FormOnce
    <3>3. CASE c.arg.after # "save"
      <4>1. /\ ui'.form = ui.form /\ ui'.fields = ui.fields /\ ui'.saving = ui.saving
            /\ ~ MenuCloses(net, i)
        BY <1>11, <2>2, <2>4, <3>3 DEF MenuCloses
      <4>2. ui.saving \in BOOLEAN /\ ui.saving = ui.saving
        BY <1>1 DEF MenuUi
      <4> QED BY <1>1, <1>5, <1>8, <3>1, <4>1, <4>2, MenuSettle
    <3> QED BY <3>2, <3>3
  <2>6. MenuSrv(srv')
    BY <1>5 DEF MenuInv
  <2> QED BY <1>7, <1>9, <2>2, <2>3, <2>5, <2>6 DEF MenuInv
<1> QED BY <1>12, <1>13

LEMMA MenuSwitches ==
  ASSUME None # 0, MenuInv, Menu!SwitchTab PROVE MenuInv'
<1>1. MenuUi(ui) /\ MenuPast(hist) /\ MenuSrv(srv) /\ MenuNet(net, hist.texts) /\ Proper(net)
  BY DEF MenuInv, MenuNet
<1>2. /\ ui' = Menu!Fresh(ui.current) /\ net' = Unheard(net, Menu!Kinds) /\ srv' = srv
      /\ Menu!Click(None)
  BY MenuCalls DEF Menu!SwitchTab
<1>3. MenuUi(ui') /\ ui'.form = None /\ ui'.saving = FALSE
  BY <1>1, <1>2 DEF Menu!Fresh, MenuUi
<1>4. /\ MenuPast(hist') /\ hist'.texts = hist.texts /\ hist'.unread = hist.unread
      /\ hist'.filed = hist.filed
  BY <1>1, <1>2, MenuClick
<1>5. Silences(net, net', Menu!Kinds)
  BY <1>1, <1>2, ProperUnheard
<1>6. /\ Proper(net') /\ DOMAIN net' = DOMAIN net
      /\ \A j \in DOMAIN net : /\ net'[j].kind = net[j].kind /\ net'[j].arg = net[j].arg
                               /\ net'[j].ok = net[j].ok /\ net'[j].data = net[j].data
                               /\ net'[j].here = FALSE
  BY <1>1, <1>5 DEF Silences, MenuNet
<1>7. (\A j : MenuMakes(net', j) <=> MenuMakes(net, j)) /\ (\A j : ~ MenuSaves(net', j))
  BY <1>6 DEF MenuMakes, MenuSaves
<1>8. MenuNet(net', hist.texts)
  BY <1>1, <1>6, <1>7 DEF MenuNet, MenuMakes
<1>9. EachOnce(net, hist.filed) => EachOnce(net', hist.filed)
  BY <1>6, <1>7 DEF EachOnce, MenuMakes
<1>10. FormOnce(None, ui'.fields.text, FALSE, net', hist.filed)
  BY <1>7 DEF FormOnce
<1>11. MenuFields(ui'.form, ui'.fields, hist.texts)
  BY <1>3 DEF MenuFields
<1> QED BY <1>1, <1>2, <1>3, <1>4, <1>8, <1>9, <1>10, <1>11 DEF MenuInv

LEMMA MenuNext ==
  ASSUME None # 0, MenuInv, [Menu!Next]_(Menu!vars) PROVE MenuInv'
<1>1. CASE UNCHANGED Menu!vars
  BY <1>1 DEF Menu!vars, MenuInv
<1>2. CASE Menu!Backend
  BY <1>2, MenuBackend
<1>3. CASE \/ Menu!startCreate \/ Menu!startEdit \/ Menu!cancelForm \/ Menu!toggleBuilder
           \/ Menu!AskDelete \/ Menu!CancelDelete
  BY <1>3, MenuForms
<1>4. CASE Menu!MenuForm \/ Menu!save \/ Menu!CopyAnswered \/ Menu!refresh \/ Menu!SwitchTab
  BY <1>4, MenuTypes, MenuSavesForm, MenuCopies, MenuReads, MenuSwitches
<1>5. CASE Menu!toggleActive \/ Menu!remove \/ Menu!duplicate \/ Menu!move
  BY <1>5, MenuCards
<1>6. CASE Menu!UpdateAnswered \/ Menu!MoveAnswered \/ Menu!StrayAnswered
  BY <1>6, MenuAnswered
<1> QED BY <1>1, <1>2, <1>3, <1>4, <1>5, <1>6 DEF Menu!Next

\* Names typed once make one menu, unless the answer of the call that made it is lost or
\* the read after a change fails.
THEOREM MenuMadeOnce == None # 0 => (Menu!Spec => []Menu!OneMenuPerForm)
<1>1. MenuInv => Menu!OneMenuPerForm
  BY DEF MenuInv, EachOnce, MenuPast, Menu!OneMenuPerForm
<1>2. SUFFICES ASSUME None # 0 PROVE Menu!Spec => []Menu!OneMenuPerForm
  OBVIOUS
<1>3. Menu!Init => MenuInv
  BY <1>2, MenuInit
<1>4. MenuInv /\ [Menu!Next]_(Menu!vars) => MenuInv'
  BY <1>2, MenuNext
<1> QED BY <1>1, <1>3, <1>4, PTL DEF Menu!Spec

-----------------------------------------------------------------------------
(* The discussion of an event                                                *)

CONSTANTS Bodies, MaxComments

Thread == INSTANCE CommentThread WITH MaxMsgs <- MaxComments

LEMMA ThreadCalls ==
  /\ \A n, i, d : Thread!Served(n, i, d) = Served(n, i, d)
  /\ \A n, i, d : Thread!Refused(n, i, d) = Refused(n, i, d)
  /\ \A n, i : Thread!Settled(n, i) = Settled(n, i)
  /\ \A n, k, a : Thread!Sent(n, k, a) = Sent(n, k, a)
BY DEF Thread!Served, Served, Thread!Refused, Refused, Thread!Settled, Settled,
       Thread!RemoveAt, RemoveAt, Thread!Sent, Sent, Thread!Call, Call

\* A list of comments that may be put on screen: a message once, a placeholder
\* only of one's own, and a real comment only if the backend has it.
Clear(S, filed) ==
    /\ \A c \in S : /\ c = [temp |-> c.temp, msg |-> c.msg] /\ c.temp \in BOOLEAN
                    /\ c.temp => c.msg.mine
                    /\ ~ c.temp => c.msg \in filed
    /\ \A c, d \in S : c.msg = d.msg => c = d

Alone(x, filed) == \A m \in filed : m.n # x.n

\* What a call carries, asked and answered.
ThreadHonest(c, filed, msgs) ==
    /\ c.kind \in {"load", "poll"} /\ c.ok => c.data \subseteq filed
    /\ c.kind = "send" => /\ c.arg.n \in 1..msgs /\ c.arg.mine
                          /\ c.ok => c.arg \in filed
                          /\ ~ c.ok => Alone(c.arg, filed)
    /\ c.kind = "delete" => Clear(c.arg.prev, filed) /\ \E m \in filed : m.n = c.arg.n

Sends(n, i) == i \in DOMAIN n /\ n[i].kind = "send"
Deletes(n, i) == i \in DOMAIN n /\ n[i].kind = "delete"

ThreadUi(u) ==
    /\ u = [shown |-> u.shown, text |-> u.text, pendingDelete |-> u.pendingDelete,
            mounted |-> u.mounted, sending |-> u.sending, near |-> u.near, below |-> u.below]
    /\ u.sending \in BOOLEAN

ThreadPast(h) ==
    /\ h = [msgs |-> h.msgs, typed |-> h.typed, stale |-> h.stale, rolledBack |-> h.rolledBack]
    /\ h.msgs \in Nat /\ h.typed \subseteq 1..h.msgs
    /\ h.rolledBack \in BOOLEAN

\* One comment has one number, and no other.
ThreadFiled(s, msgs) ==
    /\ s = [filed |-> s.filed, gone |-> s.gone]
    /\ s.gone \subseteq s.filed
    /\ \A m \in s.filed : m.n \in 1..msgs
    /\ \A m, k \in s.filed : m.n = k.n => m = k

ThreadNet(n, filed, msgs) ==
    Proper(n) /\ \A i \in DOMAIN n : ThreadHonest(n[i], filed, msgs)

\* One send at a time.
OneSend(n, sending) ==
    /\ \A i, j : Sends(n, i) /\ Sends(n, j) => i = j
    /\ ~ sending => \A i : ~ Sends(n, i)

\* The text in the composer is nowhere else yet.
TextIsNew(text, n, filed, msgs) ==
    text # Thread!NoText =>
        /\ text.n \in 1..msgs /\ text.mine /\ Alone(text, filed)
        /\ \A i : Sends(n, i) => n[i].arg.n # text.n

\* A delete on its way keeps its comment off the screen, if no late answer has
\* brought that back.
OneDelete(n, pending, stale) ==
    /\ \A i : Deletes(n, i) => n[i].arg.n \in pending \cup stale
    /\ \A i, j : Deletes(n, i) /\ Deletes(n, j) /\ n[i].arg.n = n[j].arg.n =>
                    i = j \/ n[i].arg.n \in stale

Undisturbed == ~ hist.rolledBack

\* What a screen may show while deletes are going on.
Hidden(shown, pending, gone, stale) ==
    \A c \in shown : c.msg.n \notin stale => c.msg.n \notin pending /\ c.msg \notin gone

ThreadInv ==
    /\ ThreadUi(ui) /\ ThreadPast(hist)
    /\ ThreadFiled(srv, hist.msgs)
    /\ ThreadNet(net, srv.filed, hist.msgs)
    /\ Clear(ui.shown, srv.filed)
    /\ OneSend(net, ui.sending)
    /\ TextIsNew(ui.text, net, srv.filed, hist.msgs)
    /\ \A n \in ui.pendingDelete : \E m \in srv.filed : m.n = n
    /\ Undisturbed => OneDelete(net, ui.pendingDelete, hist.stale)
    /\ Thread!NoPhantom /\ Thread!DeletedStaysHidden /\ Thread!TextKept

LEMMA ThreadInit == Thread!Init => ThreadInv
<1> SUFFICES ASSUME Thread!Init PROVE ThreadInv
  OBVIOUS
<1>1. PICK body \in Bodies : srv = [filed |-> {Thread!Mine(1, body)}, gone |-> {}]
  BY DEF Thread!Init
<1>2. /\ ui = [shown |-> {}, text |-> Thread!NoText, pendingDelete |-> {}, mounted |-> FALSE,
               sending |-> FALSE, near |-> TRUE, below |-> FALSE]
      /\ hist = [msgs |-> 1, typed |-> {}, stale |-> {}, rolledBack |-> FALSE]
      /\ net = << >>
  BY DEF Thread!Init
<1>3. Proper(net) /\ DOMAIN net = {}
  BY <1>2, ProperEmpty
<1>4. ThreadUi(ui) /\ ThreadPast(hist) /\ ThreadFiled(srv, hist.msgs)
  <2>1. ThreadUi(ui)
    BY <1>2 DEF ThreadUi
  <2>2. ThreadPast(hist)
    BY <1>2 DEF ThreadPast
  <2>3. ThreadFiled(srv, hist.msgs)
    <3>1. PICK m : m = Thread!Mine(1, body)
      OBVIOUS
    <3>2. m.n = 1
      BY <3>1 DEF Thread!Mine
    <3>3. srv = [filed |-> {m}, gone |-> {}] /\ hist.msgs = 1
      BY <1>1, <1>2, <3>1
    <3> QED BY ONLY <3>2, <3>3 DEF ThreadFiled
  <2> QED BY <2>1, <2>2, <2>3
<1>5. ThreadNet(net, srv.filed, hist.msgs) /\ OneSend(net, ui.sending)
      /\ OneDelete(net, ui.pendingDelete, hist.stale)
  BY <1>3 DEF ThreadNet, OneSend, OneDelete, Sends, Deletes
<1> QED
  BY <1>2, <1>3, <1>4, <1>5 DEF ThreadInv, Clear, TextIsNew, Thread!NoPhantom,
       Thread!DeletedStaysHidden, Thread!TextKept

LEMMA MoreFiled ==
  ASSUME NEW f, NEW g, f \subseteq g, NEW msgs \in Nat, NEW more \in Nat, msgs <= more,
         NEW c, ThreadHonest(c, f, msgs),
         c.kind = "send" /\ ~ c.ok => Alone(c.arg, g)
  PROVE  ThreadHonest(c, g, more)
<1>1. \A S : Clear(S, f) => Clear(S, g)
  BY DEF Clear
<1>2. 1..msgs \subseteq 1..more
  OBVIOUS
<1> QED BY <1>1, <1>2 DEF ThreadHonest

\* What an answer leaves behind, if it carries what it should.
LEMMA ThreadAnswer ==
  ASSUME ThreadInv, UNCHANGED ui,
         ThreadPast(hist'), hist'.typed = hist.typed, hist'.stale = hist.stale,
         hist'.rolledBack = hist.rolledBack, hist.msgs <= hist'.msgs,
         NEW i \in DOMAIN net, NEW data, NEW ok, Answers(net, i, net', data, ok),
         ThreadFiled(srv', hist'.msgs), srv.filed \subseteq srv'.filed,
         \A j \in DOMAIN net \ {i} :
            net[j].kind = "send" /\ ~ net[j].ok => Alone(net[j].arg, srv'.filed),
         ThreadHonest(net'[i], srv'.filed, hist'.msgs),
         ui.text # Thread!NoText => Alone(ui.text, srv'.filed),
         Undisturbed => Hidden(ui.shown, ui.pendingDelete, srv'.gone, hist.stale)
  PROVE  ThreadInv'
<1>1. /\ Proper(net') /\ DOMAIN net' = DOMAIN net
      /\ \A j \in DOMAIN net \ {i} : net'[j] = net[j]
      /\ \A j \in DOMAIN net : net'[j].kind = net[j].kind /\ net'[j].arg = net[j].arg
  BY DEF Answers
<1>2. /\ \A j : Sends(net', j) <=> Sends(net, j)
      /\ \A j : Deletes(net', j) <=> Deletes(net, j)
  BY <1>1 DEF Sends, Deletes
<1>0. hist.msgs \in Nat /\ hist'.msgs \in Nat /\ 1..hist.msgs \subseteq 1..hist'.msgs
  BY DEF ThreadInv, ThreadPast
<1>3. ThreadNet(net', srv'.filed, hist'.msgs)
  <2>1. ASSUME NEW j \in DOMAIN net \ {i} PROVE ThreadHonest(net[j], srv'.filed, hist'.msgs)
    BY <1>0, MoreFiled DEF ThreadInv, ThreadNet
  <2> QED BY <1>1, <2>1 DEF ThreadNet
<1>4. OneSend(net', ui.sending)
  BY <1>2 DEF ThreadInv, OneSend
<1>5. TextIsNew(ui.text, net', srv'.filed, hist'.msgs)
  BY <1>0, <1>1, <1>2 DEF ThreadInv, TextIsNew, Sends
<1>6. Undisturbed => OneDelete(net', ui.pendingDelete, hist.stale)
  BY <1>1, <1>2 DEF ThreadInv, OneDelete, Deletes
<1>7. Thread!NoPhantom' /\ Thread!TextKept'
  BY <1>1 DEF ThreadInv, Thread!NoPhantom, Thread!TextKept
<1>8. Thread!DeletedStaysHidden'
  BY DEF Thread!DeletedStaysHidden, Undisturbed, Hidden
<1>9. Clear(ui.shown, srv'.filed) /\ \A n \in ui.pendingDelete : \E m \in srv'.filed : m.n = n
  BY DEF ThreadInv, Clear
<1> QED BY <1>3, <1>4, <1>5, <1>6, <1>7, <1>8, <1>9 DEF ThreadInv, Undisturbed

\* An answer that files nothing and deletes nothing.
LEMMA ThreadRead ==
  ASSUME ThreadInv, Thread!Backend,
         Thread!ServeLook \/ Thread!ServeRefusal \/ Thread!AnswerLost
  PROVE  ThreadInv'
<1>1. PICK i \in DOMAIN net :
        /\ UNCHANGED <<ui, srv, hist>>
        /\ \/ net[i].kind \in {"load", "poll"} /\ net' = Served(net, i, Thread!Stored)
           \/ (net[i].kind = "send" => ~ net[i].ok) /\ net' = Refused(net, i, None)
  <2>1. CASE Thread!ServeLook
    BY <2>1, ThreadCalls DEF Thread!Backend, Thread!ServeLook, Thread!Waiting
  <2>2. CASE Thread!ServeRefusal
    <3>1. PICK i \in DOMAIN net : /\ net[i].stage = "sent" /\ net' = Refused(net, i, None)
                                  /\ UNCHANGED <<ui, srv, hist>>
      BY <2>2, ThreadCalls DEF Thread!Backend, Thread!ServeRefusal
    <3>2. ~ net[i].ok
      BY <3>1 DEF ThreadInv, ThreadNet, Proper, IsCall
    <3> QED BY <3>1, <3>2
  <2>3. CASE Thread!AnswerLost
    BY <2>3, ThreadCalls DEF Thread!Backend, Thread!AnswerLost, Thread!Coming
  <2> QED BY <2>1, <2>2, <2>3
<1>2. PICK data, ok : /\ Answers(net, i, net', data, ok)
                      /\ ok \in BOOLEAN
                      /\ ok => net[i].kind \in {"load", "poll"} /\ data = Thread!Stored
                      /\ (~ ok /\ net[i].kind = "send") => ~ net[i].ok
  <2>1. \A x : /\ Answers(net, i, Served(net, i, x), x, TRUE)
               /\ Answers(net, i, Refused(net, i, x), x, FALSE)
    BY ProperAnswered DEF ThreadInv, ThreadNet
  <2>2. CASE net[i].kind \in {"load", "poll"} /\ net' = Served(net, i, Thread!Stored)
    BY <2>1, <2>2
  <2>3. CASE (net[i].kind = "send" => ~ net[i].ok) /\ net' = Refused(net, i, None)
    BY <2>1, <2>3
  <2> QED BY <1>1, <2>2, <2>3
<1>3. ThreadHonest(net[i], srv.filed, hist.msgs) /\ ThreadFiled(srv, hist.msgs)
  BY DEF ThreadInv, ThreadNet
<1>4. ThreadHonest(net'[i], srv.filed, hist.msgs)
  BY <1>2, <1>3 DEF Answers, ThreadHonest, Thread!Stored
<1>5. \A j \in DOMAIN net : net[j].kind = "send" /\ ~ net[j].ok => Alone(net[j].arg, srv.filed)
  BY DEF ThreadInv, ThreadNet, ThreadHonest
<1>6. ui.text # Thread!NoText => Alone(ui.text, srv.filed)
  BY DEF ThreadInv, TextIsNew
<1>7. Undisturbed => Hidden(ui.shown, ui.pendingDelete, srv.gone, hist.stale)
  BY DEF ThreadInv, Thread!DeletedStaysHidden, Undisturbed, Hidden
<1>8. ThreadPast(hist) /\ hist.msgs <= hist.msgs
  BY DEF ThreadInv, ThreadPast
<1> QED BY <1>1, <1>2, <1>3, <1>4, <1>5, <1>6, <1>7, <1>8, ThreadAnswer

\* A comment is filed, as the one that was sent or, when the answer is lost, as a twin
\* with a number of its own.
LEMMA ThreadFiles ==
  ASSUME ThreadInv, Thread!Backend, Thread!ServeSend \/ Thread!SendLost PROVE ThreadInv'
<1>1. PICK i, m :
        /\ i \in DOMAIN net
        /\ net[i].kind = "send" /\ net[i].stage = "sent" /\ ui' = ui
        /\ srv' = [srv EXCEPT !.filed = @ \cup {m}]
        /\ \/ m = net[i].arg /\ net' = Served(net, i, net[i].arg) /\ hist' = hist
           \/ /\ m.n = hist.msgs + 1 /\ net' = Refused(net, i, None)
              /\ hist' = [hist EXCEPT !.msgs = @ + 1]
  <2>1. CASE Thread!ServeSend
    BY <2>1, ThreadCalls DEF Thread!Backend, Thread!ServeSend, Thread!Waiting
  <2>2. CASE Thread!SendLost
    <3>1. PICK i \in DOMAIN net :
            /\ net[i].kind = "send" /\ net[i].stage = "sent" /\ ui' = ui
            /\ srv' = [srv EXCEPT !.filed = @ \cup {Thread!Mine(hist.msgs + 1, net[i].arg.body)}]
            /\ net' = Refused(net, i, None)
            /\ hist' = [hist EXCEPT !.msgs = @ + 1]
      BY <2>2, ThreadCalls DEF Thread!Backend, Thread!SendLost, Thread!Waiting
    <3>2. PICK m : m = Thread!Mine(hist.msgs + 1, net[i].arg.body)
      OBVIOUS
    <3>3. m.n = hist.msgs + 1
      BY <3>2 DEF Thread!Mine
    <3> QED BY <3>1, <3>2, <3>3
  <2> QED BY <2>1, <2>2
<1>2. /\ ThreadPast(hist') /\ hist'.typed = hist.typed /\ hist'.stale = hist.stale
      /\ hist'.rolledBack = hist.rolledBack /\ hist.msgs <= hist'.msgs
      /\ hist.msgs \in Nat /\ hist'.msgs \in Nat
      /\ m = net[i].arg \/ (m.n = hist.msgs + 1 /\ hist'.msgs = hist.msgs + 1)
  <2>1. ThreadPast(hist)
    BY DEF ThreadInv
  <2>2. CASE hist' = hist /\ m = net[i].arg
    <3>1. hist.msgs \in Nat /\ hist.msgs <= hist.msgs
      BY <2>1 DEF ThreadPast
    <3>2. ThreadPast(hist') /\ m = net[i].arg
      BY <2>1, <2>2
    <3>3. /\ hist'.typed = hist.typed /\ hist'.stale = hist.stale
          /\ hist'.rolledBack = hist.rolledBack /\ hist'.msgs = hist.msgs
      BY <2>2
    <3> QED BY <3>1, <3>2, <3>3
  <2>3. CASE hist' = [hist EXCEPT !.msgs = @ + 1] /\ m.n = hist.msgs + 1
    BY <2>1, <2>3 DEF ThreadPast
  <2> QED BY <1>1, <2>2, <2>3
<1>3. /\ net[i].arg.n \in 1..hist.msgs /\ net[i].arg.mine /\ Alone(net[i].arg, srv.filed)
      /\ ThreadFiled(srv, hist.msgs) /\ Proper(net)
  BY <1>1 DEF ThreadInv, ThreadNet, ThreadHonest, Proper, IsCall
<1>4. /\ srv'.filed = srv.filed \cup {m} /\ srv'.gone = srv.gone
      /\ srv' = [filed |-> srv'.filed, gone |-> srv'.gone]
  BY <1>1, <1>3 DEF ThreadFiled
<1>5. m.n \in 1..hist'.msgs /\ Alone(m, srv.filed)
  BY <1>2, <1>3 DEF ThreadFiled, Alone
<1>6. ThreadFiled(srv', hist'.msgs)
  BY <1>2, <1>3, <1>4, <1>5 DEF ThreadFiled, Alone
<1>7. PICK data, ok : /\ Answers(net, i, net', data, ok) /\ ok \in BOOLEAN
                      /\ ok => m = net[i].arg
                      /\ ~ ok => m.n = hist.msgs + 1
  <2>1. \A x : /\ Answers(net, i, Served(net, i, x), x, TRUE)
               /\ Answers(net, i, Refused(net, i, x), x, FALSE)
    BY <1>1, <1>3, ProperAnswered
  <2>2. CASE m = net[i].arg /\ net' = Served(net, i, net[i].arg)
    BY <2>1, <2>2
  <2>3. CASE m.n = hist.msgs + 1 /\ net' = Refused(net, i, None)
    BY <2>1, <2>3
  <2> QED BY <1>1, <2>2, <2>3
<1>8. net'[i].kind = "send" /\ net'[i].arg = net[i].arg /\ net'[i].ok = ok
  BY <1>1, <1>7 DEF Answers
<1>9. ThreadHonest(net'[i], srv'.filed, hist'.msgs)
  <2>1. net[i].arg.n \in 1..hist'.msgs
    BY <1>2, <1>3
  <2>2. ok => net[i].arg \in srv'.filed
    BY <1>4, <1>7
  <2>3. ~ ok => Alone(net[i].arg, srv'.filed)
    BY <1>2, <1>3, <1>4, <1>7 DEF Alone
  <2> QED BY <1>3, <1>8, <2>1, <2>2, <2>3 DEF ThreadHonest
<1>10. \A j \in DOMAIN net \ {i} : net[j].kind # "send"
  BY <1>1 DEF ThreadInv, OneSend, Sends
<1>11. ui.text # Thread!NoText => Alone(ui.text, srv'.filed)
  BY <1>1, <1>2, <1>4 DEF ThreadInv, TextIsNew, Alone, Sends
<1>12. Undisturbed => Hidden(ui.shown, ui.pendingDelete, srv'.gone, hist.stale)
  BY <1>4 DEF ThreadInv, Thread!DeletedStaysHidden, Undisturbed, Hidden
<1> QED BY <1>1, <1>2, <1>4, <1>6, <1>7, <1>9, <1>10, <1>11, <1>12, ThreadAnswer

LEMMA ThreadServesDelete ==
  ASSUME ThreadInv, Thread!Backend, Thread!ServeDelete PROVE ThreadInv'
<1>1. PICK i \in DOMAIN net :
        /\ net[i].kind = "delete" /\ net' = Served(net, i, None) /\ UNCHANGED <<ui, hist>>
        /\ srv' = [srv EXCEPT !.gone = @ \cup {m \in srv.filed : m.n = net[i].arg.n}]
  BY ThreadCalls DEF Thread!Backend, Thread!ServeDelete, Thread!Waiting
<1>2. Answers(net, i, net', None, TRUE)
  BY <1>1, ProperAnswered DEF ThreadInv, ThreadNet
<1>3. ThreadHonest(net[i], srv.filed, hist.msgs) /\ ThreadFiled(srv, hist.msgs)
  BY DEF ThreadInv, ThreadNet
<1>4. srv'.filed = srv.filed /\ srv'.gone = srv.gone \cup {m \in srv.filed : m.n = net[i].arg.n}
      /\ srv' = [filed |-> srv'.filed, gone |-> srv'.gone]
  BY <1>1, <1>3 DEF ThreadFiled
<1>5. ThreadFiled(srv', hist.msgs)
  BY <1>3, <1>4 DEF ThreadFiled
<1>6. ThreadHonest(net'[i], srv'.filed, hist.msgs)
  BY <1>1, <1>2, <1>3, <1>4 DEF ThreadHonest, Answers
<1>7. Undisturbed => Hidden(ui.shown, ui.pendingDelete, srv'.gone, hist.stale)
  <2>1. Undisturbed => net[i].arg.n \in ui.pendingDelete \cup hist.stale
    BY <1>1 DEF ThreadInv, OneDelete, Deletes
  <2>2. Undisturbed => Hidden(ui.shown, ui.pendingDelete, srv.gone, hist.stale)
    BY DEF ThreadInv, Thread!DeletedStaysHidden, Undisturbed, Hidden
  <2> QED BY <1>4, <2>1, <2>2 DEF Hidden
<1>8. \A j \in DOMAIN net : net[j].kind = "send" /\ ~ net[j].ok => Alone(net[j].arg, srv.filed)
  BY DEF ThreadInv, ThreadNet, ThreadHonest
<1>9. ui.text # Thread!NoText => Alone(ui.text, srv.filed)
  BY DEF ThreadInv, TextIsNew
<1>10. ThreadPast(hist) /\ hist.msgs <= hist.msgs
  BY DEF ThreadInv, ThreadPast
<1> QED BY <1>1, <1>2, <1>4, <1>5, <1>6, <1>7, <1>8, <1>9, <1>10, ThreadAnswer

LEMMA ThreadBackend ==
  ASSUME ThreadInv, Thread!Backend PROVE ThreadInv'
BY ThreadRead, ThreadFiles, ThreadServesDelete DEF Thread!Backend

LEMMA ThreadOthersWrite ==
  ASSUME ThreadInv, Thread!OthersWrite PROVE ThreadInv'
<1>1. PICK m : /\ m.n = hist.msgs + 1
               /\ srv' = [srv EXCEPT !.filed = @ \cup {m}]
               /\ hist' = [hist EXCEPT !.msgs = @ + 1] /\ UNCHANGED <<ui, net>>
  BY DEF Thread!OthersWrite
<1>2. /\ hist'.msgs = hist.msgs + 1 /\ hist'.typed = hist.typed
      /\ hist'.stale = hist.stale /\ hist'.rolledBack = hist.rolledBack
      /\ hist.msgs \in Nat /\ 1..hist.msgs \subseteq 1..hist'.msgs
      /\ \A n \in 1..hist.msgs : n # hist.msgs + 1
  BY <1>1 DEF ThreadInv, ThreadPast
<1>3. ThreadPast(hist')
  BY <1>1, <1>2 DEF ThreadInv, ThreadPast
<1>4. srv'.filed = srv.filed \cup {m} /\ srv'.gone = srv.gone
  BY <1>1 DEF ThreadInv, ThreadFiled
<1>5. ThreadFiled(srv', hist'.msgs)
  <2>1. srv' = [filed |-> srv'.filed, gone |-> srv'.gone]
    BY <1>1 DEF ThreadInv, ThreadFiled
  <2>2. m.n \in 1..hist'.msgs
    BY <1>1, <1>2
  <2> QED BY <1>1, <1>2, <1>4, <2>1, <2>2 DEF ThreadInv, ThreadFiled
<1>6. ThreadNet(net', srv'.filed, hist'.msgs)
  <2>1. ASSUME NEW i \in DOMAIN net PROVE ThreadHonest(net[i], srv'.filed, hist'.msgs)
    <3>1. ThreadHonest(net[i], srv.filed, hist.msgs)
      BY DEF ThreadInv, ThreadNet
    <3>2. net[i].kind = "send" /\ ~ net[i].ok => Alone(net[i].arg, srv'.filed)
      BY <1>1, <1>2, <1>4, <3>1 DEF ThreadHonest, Alone
    <3>3. srv.filed \subseteq srv'.filed /\ hist'.msgs \in Nat /\ hist.msgs <= hist'.msgs
      BY <1>2, <1>4
    <3> QED BY <1>2, <3>1, <3>2, <3>3, MoreFiled
  <2> QED BY <1>1, <2>1 DEF ThreadInv, ThreadNet
<1>7. TextIsNew(ui.text, net, srv'.filed, hist'.msgs)
  BY <1>1, <1>2, <1>4 DEF ThreadInv, TextIsNew, Alone
<1>8. Clear(ui.shown, srv'.filed) /\ \A n \in ui.pendingDelete : \E k \in srv'.filed : k.n = n
  BY <1>4 DEF ThreadInv, Clear
<1>9. Thread!NoPhantom' /\ Thread!DeletedStaysHidden' /\ Thread!TextKept'
  BY <1>1, <1>2, <1>4 DEF ThreadInv, Thread!NoPhantom, Thread!DeletedStaysHidden, Thread!TextKept
<1> QED BY <1>1, <1>2, <1>3, <1>5, <1>6, <1>7, <1>8, <1>9 DEF ThreadInv, Undisturbed

\* A call that leaves, if it carries what it should.
LEMMA ThreadAsk ==
  ASSUME ThreadInv, NEW last, NEW kind, NEW arg, Asks(net, net', last, kind, arg),
         ThreadHonest(net'[last], srv.filed, hist.msgs)
  PROVE  /\ ThreadNet(net', srv.filed, hist.msgs)
         /\ \A j : Sends(net', j) <=> Sends(net, j) \/ (j = last /\ kind = "send")
         /\ \A j : Deletes(net', j) <=> Deletes(net, j) \/ (j = last /\ kind = "delete")
         /\ \A j : Sends(net, j) \/ Deletes(net, j) => net'[j] = net[j]
         /\ last \notin DOMAIN net /\ net'[last].arg = arg
         /\ ~ Sends(net, last) /\ ~ Deletes(net, last)
BY DEF Asks, ThreadInv, ThreadNet, Sends, Deletes

LEMMA ThreadLook ==
  ASSUME ThreadInv, Thread!Load \/ Thread!Poll PROVE ThreadInv'
<1>1. PICK kind \in {"load", "poll"} : net' = Sent(net, kind, None) /\ UNCHANGED <<srv, hist>>
  BY ThreadCalls DEF Thread!Load, Thread!Poll
<1>2. PICK last : Asks(net, net', last, kind, None)
  BY <1>1, ProperSent DEF ThreadInv, ThreadNet
<1>3. ThreadHonest(net'[last], srv.filed, hist.msgs)
  BY <1>1, <1>2 DEF Asks, ThreadHonest
<1>4. /\ ThreadNet(net', srv.filed, hist.msgs)
      /\ \A j : Sends(net', j) <=> Sends(net, j)
      /\ \A j : Deletes(net', j) <=> Deletes(net, j)
      /\ \A j : Sends(net, j) \/ Deletes(net, j) => net'[j] = net[j]
  BY <1>1, <1>2, <1>3, ThreadAsk
<1>5. /\ ThreadUi(ui') /\ ui'.shown = ui.shown /\ ui'.text = ui.text
      /\ ui'.pendingDelete = ui.pendingDelete /\ ui'.sending = ui.sending
  <2>1. ui' = [ui EXCEPT !.mounted = TRUE] \/ ui' = ui
    BY DEF Thread!Load, Thread!Poll
  <2> QED BY <2>1 DEF ThreadInv, ThreadUi
<1>6. OneSend(net', ui.sending) /\ TextIsNew(ui.text, net', srv.filed, hist.msgs)
  BY <1>4 DEF ThreadInv, OneSend, TextIsNew
<1>7. Undisturbed => OneDelete(net', ui.pendingDelete, hist.stale)
  BY <1>4 DEF ThreadInv, OneDelete
<1>8. Thread!NoPhantom' /\ Thread!TextKept'
  BY <1>1, <1>2, <1>5 DEF ThreadInv, Asks, Thread!NoPhantom, Thread!TextKept
<1>9. Thread!DeletedStaysHidden'
  BY <1>1, <1>5 DEF ThreadInv, Thread!DeletedStaysHidden
<1> QED BY <1>1, <1>4, <1>5, <1>6, <1>7, <1>8, <1>9 DEF ThreadInv, Undisturbed

LEMMA ThreadScroll ==
  ASSUME ThreadInv, Thread!handleScroll PROVE ThreadInv'
<1>1. /\ ThreadUi(ui') /\ ui'.shown = ui.shown /\ ui'.text = ui.text
      /\ ui'.pendingDelete = ui.pendingDelete /\ ui'.sending = ui.sending
      /\ UNCHANGED <<net, srv, hist>>
  BY DEF Thread!handleScroll, ThreadInv, ThreadUi
<1> QED BY <1>1 DEF ThreadInv, Undisturbed, Thread!NoPhantom, Thread!DeletedStaysHidden,
                    Thread!TextKept

LEMMA ThreadType ==
  ASSUME ThreadInv, Thread!Type PROVE ThreadInv'
<1>1. PICK body \in Bodies :
        /\ ui.text = Thread!NoText
        /\ ui' = [ui EXCEPT !.text = Thread!Mine(hist.msgs + 1, body)]
        /\ hist' = [hist EXCEPT !.msgs = @ + 1, !.typed = @ \cup {hist.msgs + 1}]
        /\ UNCHANGED <<net, srv>>
  BY DEF Thread!Type
<1>2. PICK text : text = Thread!Mine(hist.msgs + 1, body)
  OBVIOUS
<1>3. text.n = hist.msgs + 1 /\ text.mine = TRUE
  BY <1>2 DEF Thread!Mine
<1>4. /\ ThreadUi(ui') /\ ui'.shown = ui.shown /\ ui'.text = text
      /\ ui'.pendingDelete = ui.pendingDelete /\ ui'.sending = ui.sending
  BY <1>1, <1>2 DEF ThreadInv, ThreadUi
<1>5. /\ hist'.msgs = hist.msgs + 1 /\ hist'.typed = hist.typed \cup {hist.msgs + 1}
      /\ hist'.stale = hist.stale /\ hist'.rolledBack = hist.rolledBack
      /\ hist' = [msgs |-> hist'.msgs, typed |-> hist'.typed, stale |-> hist'.stale,
                  rolledBack |-> hist'.rolledBack]
      /\ hist.msgs \in Nat /\ hist.typed \subseteq 1..hist.msgs
  BY <1>1 DEF ThreadInv, ThreadPast
<1>6. /\ 1..hist.msgs \subseteq 1..hist'.msgs /\ hist.msgs + 1 \in 1..hist'.msgs
      /\ \A n \in 1..hist.msgs : n # hist.msgs + 1 /\ n # 0
      /\ hist'.msgs \in Nat /\ hist.msgs <= hist'.msgs
  BY <1>5
<1>7. ThreadPast(hist')
  BY <1>5, <1>6 DEF ThreadInv, ThreadPast
<1>8. ThreadFiled(srv', hist'.msgs)
  BY <1>1, <1>6 DEF ThreadInv, ThreadFiled
<1>9. ThreadNet(net', srv'.filed, hist'.msgs)
  <2>1. ASSUME NEW i \in DOMAIN net PROVE ThreadHonest(net[i], srv.filed, hist'.msgs)
    <3>1. ThreadHonest(net[i], srv.filed, hist.msgs)
      BY DEF ThreadInv, ThreadNet
    <3>2. net[i].kind = "send" /\ ~ net[i].ok => Alone(net[i].arg, srv.filed)
      BY <3>1 DEF ThreadHonest
    <3> QED BY <1>5, <1>6, <3>1, <3>2, MoreFiled
  <2> QED BY <1>1, <2>1 DEF ThreadInv, ThreadNet
<1>10. TextIsNew(ui'.text, net', srv'.filed, hist'.msgs)
  <2>1. Alone(text, srv.filed)
    BY <1>3, <1>6 DEF ThreadInv, ThreadFiled, Alone
  <2>2. \A i : Sends(net, i) => net[i].arg.n # text.n
    BY <1>3, <1>6 DEF ThreadInv, ThreadNet, ThreadHonest, Sends
  <2> QED BY <1>1, <1>3, <1>4, <1>6, <2>1, <2>2 DEF TextIsNew
<1>11. Thread!TextKept'
  <2>1. \A n \in hist.typed : n # ui.text.n
    BY <1>1, <1>5, <1>6 DEF Thread!NoText
  <2> QED BY <1>1, <1>3, <1>4, <1>5, <2>1 DEF ThreadInv, Thread!TextKept
<1>12. Thread!NoPhantom' /\ Thread!DeletedStaysHidden'
  BY <1>1, <1>4, <1>5 DEF ThreadInv, Thread!NoPhantom, Thread!DeletedStaysHidden
<1> QED BY <1>1, <1>4, <1>5, <1>7, <1>8, <1>9, <1>10, <1>11, <1>12 DEF ThreadInv, Undisturbed

LEMMA ThreadSend ==
  ASSUME ThreadInv, Thread!handleSend PROVE ThreadInv'
<1>1. /\ ui.text # Thread!NoText /\ ~ ui.sending
      /\ ui' = [ui EXCEPT !.sending = TRUE, !.text = Thread!NoText,
                          !.shown = @ \cup {Thread!Temp(ui.text)},
                          !.near = TRUE, !.below = FALSE]
      /\ net' = Sent(net, "send", ui.text) /\ UNCHANGED <<srv, hist>>
  BY ThreadCalls DEF Thread!handleSend, Thread!Composer
<1>2. PICK c : c = Thread!Temp(ui.text)
  OBVIOUS
<1>3. c = [temp |-> TRUE, msg |-> ui.text] /\ c.temp = TRUE /\ c.msg = ui.text
  BY <1>2 DEF Thread!Temp
<1>4. /\ ThreadUi(ui') /\ ui'.shown = ui.shown \cup {c} /\ ui'.text = Thread!NoText
      /\ ui'.pendingDelete = ui.pendingDelete /\ ui'.sending = TRUE
  BY <1>1, <1>2 DEF ThreadInv, ThreadUi
<1>5. PICK last : Asks(net, net', last, "send", ui.text)
  BY <1>1, ProperSent DEF ThreadInv, ThreadNet
<1>6. /\ ui.text.n \in 1..hist.msgs /\ ui.text.mine /\ Alone(ui.text, srv.filed)
      /\ \A i : Sends(net, i) => net[i].arg.n # ui.text.n
  BY <1>1 DEF ThreadInv, TextIsNew
<1>7. ThreadHonest(net'[last], srv.filed, hist.msgs)
  BY <1>5, <1>6 DEF Asks, ThreadHonest
<1>8. /\ ThreadNet(net', srv.filed, hist.msgs)
      /\ \A j : Sends(net', j) <=> Sends(net, j) \/ j = last
      /\ \A j : Deletes(net', j) <=> Deletes(net, j)
      /\ \A j : Sends(net, j) \/ Deletes(net, j) => net'[j] = net[j]
      /\ net'[last].arg = ui.text
  BY <1>5, <1>7, ThreadAsk
<1>9. OneSend(net', TRUE)
  BY <1>1, <1>8 DEF ThreadInv, OneSend
<1>10. TextIsNew(ui'.text, net', srv.filed, hist.msgs)
  BY <1>4 DEF TextIsNew
<1>11. Undisturbed => OneDelete(net', ui.pendingDelete, hist.stale)
  BY <1>8 DEF ThreadInv, OneDelete
<1>12. Clear(ui'.shown, srv.filed)
  <2>1. \A d \in ui.shown : ~ d.temp => d.msg # ui.text
    BY <1>6 DEF ThreadInv, Clear, Alone
  <2>2. \A d \in ui.shown : d.temp /\ d.msg = ui.text => d = c
    BY <1>3 DEF ThreadInv, Clear
  <2> QED BY <1>3, <1>4, <1>6, <2>1, <2>2 DEF ThreadInv, Clear
<1>13. Thread!NoPhantom'
  BY <1>1, <1>3, <1>4, <1>5, <1>8 DEF ThreadInv, Asks, Thread!NoPhantom
<1>14. Thread!TextKept'
  <2>1. net'[last].kind = "send" /\ last \in DOMAIN net'
    BY <1>5 DEF Asks
  <2>2. \A i \in DOMAIN net : i \in DOMAIN net' /\ net'[i] = net[i]
    BY <1>5 DEF Asks
  <2> QED BY <1>1, <1>8, <2>1, <2>2 DEF ThreadInv, Thread!TextKept
<1>15. Thread!DeletedStaysHidden'
  <2>1. ui.text \notin srv.gone /\ ui.text.n \notin ui.pendingDelete
    BY <1>6 DEF ThreadInv, ThreadFiled, Alone
  <2> QED BY <1>1, <1>3, <1>4, <2>1 DEF ThreadInv, Thread!DeletedStaysHidden
<1> QED BY <1>1, <1>4, <1>8, <1>9, <1>10, <1>11, <1>12, <1>13, <1>14, <1>15
        DEF ThreadInv, Undisturbed

LEMMA ThreadSettle ==
  ASSUME ThreadInv, NEW i \in DOMAIN net, Settles(net, net', i)
  PROVE  /\ ThreadNet(net', srv.filed, hist.msgs)
         /\ OneSend(net', ui.sending)
         /\ Sends(net, i) => \A j : ~ Sends(net', j)
         /\ \A k : Sends(net, k) /\ k # i => \E j : Sends(net', j) /\ net'[j] = net[k]
         /\ TextIsNew(ui.text, net', srv.filed, hist.msgs)
         /\ Undisturbed => OneDelete(net', ui.pendingDelete, hist.stale)
         /\ Undisturbed /\ Deletes(net, i) => OneDelete(net', ui.pendingDelete \ {net[i].arg.n}, hist.stale)
<1>1. /\ \A j : Sends(net', j) => Sends(net, From(i, j)) /\ net'[j] = net[From(i, j)]
      /\ \A j : Deletes(net', j) => Deletes(net, From(i, j)) /\ net'[j] = net[From(i, j)]
      /\ \A j \in DOMAIN net' : From(i, j) # i
      /\ \A j, k \in DOMAIN net' : From(i, j) = From(i, k) => j = k
      /\ \A k \in DOMAIN net \ {i} : \E j \in DOMAIN net' : net'[j] = net[k]
  BY DEF Settles, Sends, Deletes
<1>2. ThreadNet(net', srv.filed, hist.msgs)
  BY DEF Settles, ThreadInv, ThreadNet
<1>3. OneSend(net', ui.sending) /\ (Sends(net, i) => \A j : ~ Sends(net', j))
  BY <1>1 DEF ThreadInv, OneSend, Sends
<1>4. \A k : Sends(net, k) /\ k # i => \E j : Sends(net', j) /\ net'[j] = net[k]
  BY <1>1 DEF Sends
<1>5. TextIsNew(ui.text, net', srv.filed, hist.msgs)
  BY <1>1 DEF ThreadInv, TextIsNew
<1>6. /\ Undisturbed => OneDelete(net', ui.pendingDelete, hist.stale)
      /\ Undisturbed /\ Deletes(net, i) => OneDelete(net', ui.pendingDelete \ {net[i].arg.n}, hist.stale)
  BY <1>1 DEF ThreadInv, OneDelete, Deletes
<1> QED BY <1>2, <1>3, <1>4, <1>5, <1>6
\* An answer that is neither a send's nor a delete's, whatever it shows.
LEMMA ThreadShow ==
  ASSUME ThreadInv, NEW i \in DOMAIN net, ~ Sends(net, i), ~ Deletes(net, i),
         Settles(net, net', i), srv' = srv,
         ThreadUi(ui'), ui'.text = ui.text, ui'.pendingDelete = ui.pendingDelete,
         ui'.sending = ui.sending, Clear(ui'.shown, srv.filed),
         \A c \in ui'.shown : c.temp => c \in ui.shown,
         ThreadPast(hist'), hist'.msgs = hist.msgs, hist'.typed = hist.typed,
         hist'.rolledBack = hist.rolledBack, hist.stale \subseteq hist'.stale,
         Undisturbed => Hidden(ui'.shown, ui.pendingDelete, srv.gone, hist'.stale)
  PROVE  ThreadInv'
<1>1. /\ ThreadNet(net', srv.filed, hist.msgs)
      /\ OneSend(net', ui.sending)
      /\ \A k : Sends(net, k) => \E j : Sends(net', j) /\ net'[j] = net[k]
      /\ TextIsNew(ui.text, net', srv.filed, hist.msgs)
      /\ Undisturbed => OneDelete(net', ui.pendingDelete, hist.stale)
  BY ThreadSettle
<1>2. (Undisturbed' <=> Undisturbed) /\ (Undisturbed => OneDelete(net', ui.pendingDelete, hist'.stale))
  BY <1>1 DEF Undisturbed, OneDelete
<1>3. Thread!NoPhantom' /\ Thread!TextKept'
  BY <1>1 DEF ThreadInv, Sends, Thread!NoPhantom, Thread!TextKept, Thread!isTemp
<1>4. Thread!DeletedStaysHidden'
  BY <1>2 DEF Undisturbed, Hidden, Thread!DeletedStaysHidden
<1> QED BY <1>1, <1>2, <1>3, <1>4 DEF ThreadInv

LEMMA ThreadLoaded ==
  ASSUME ThreadInv, Thread!LoadAnswered PROVE ThreadInv'
<1>1. PICK i \in DOMAIN net :
        /\ net[i].kind = "load"
        /\ ui' = IF net[i].ok
                 THEN [ui EXCEPT !.shown = {Thread!Real(m) : m \in net[i].data},
                                 !.near = TRUE, !.below = FALSE]
                 ELSE ui
        /\ hist' = [hist EXCEPT !.stale = IF net[i].ok THEN @ \cup Thread!Stale(net[i].data) ELSE @]
        /\ net' = Settled(net, i) /\ srv' = srv
  BY ThreadCalls DEF Thread!LoadAnswered, Thread!Answered
<1>2. Settles(net, net', i) /\ ~ Sends(net, i) /\ ~ Deletes(net, i)
  BY <1>1, ProperSettled DEF ThreadInv, ThreadNet, Sends, Deletes
<1>3. /\ ThreadUi(ui') /\ ui'.text = ui.text /\ ui'.pendingDelete = ui.pendingDelete
      /\ ui'.sending = ui.sending
      /\ net[i].ok => ui'.shown = {Thread!Real(m) : m \in net[i].data}
      /\ ~ net[i].ok => ui'.shown = ui.shown
  <2>1. CASE net[i].ok
    BY <1>1, <2>1 DEF ThreadInv, ThreadUi
  <2>2. CASE ~ net[i].ok
    BY <1>1, <2>2 DEF ThreadInv
  <2> QED BY <2>1, <2>2
<1>4. PICK late : late = IF net[i].ok THEN hist.stale \cup Thread!Stale(net[i].data) ELSE hist.stale
  OBVIOUS
<1>5. /\ ThreadPast(hist') /\ hist'.msgs = hist.msgs /\ hist'.typed = hist.typed
      /\ hist'.rolledBack = hist.rolledBack /\ hist'.stale = late
  <2>1. hist' = [hist EXCEPT !.stale = late]
    BY <1>1, <1>4
  <2> QED BY <2>1 DEF ThreadInv, ThreadPast
<1>6. \A m : LET c == Thread!Real(m) IN
            c = [temp |-> c.temp, msg |-> c.msg] /\ c.temp = FALSE /\ c.msg = m
  BY DEF Thread!Real
<1>7. net[i].ok => net[i].data \subseteq srv.filed
  BY <1>1 DEF ThreadInv, ThreadNet, ThreadHonest
<1>8. net[i].ok => \A c \in ui'.shown :
        /\ c = [temp |-> c.temp, msg |-> c.msg] /\ c.temp = FALSE /\ c.msg \in net[i].data
        /\ c = Thread!Real(c.msg)
  BY <1>3, <1>6
<1>9. Clear(ui'.shown, srv.filed) /\ \A c \in ui'.shown : c.temp => c \in ui.shown
  <2>1. CASE net[i].ok
    BY <1>7, <1>8, <2>1 DEF Clear
  <2>2. CASE ~ net[i].ok
    BY <1>3, <2>2 DEF ThreadInv
  <2> QED BY <2>1, <2>2
<1>10. Undisturbed => Hidden(ui'.shown, ui.pendingDelete, srv.gone, hist'.stale)
  <2>1. CASE net[i].ok
    BY <1>4, <1>5, <1>8, <2>1 DEF Hidden, Thread!Stale
  <2>2. CASE ~ net[i].ok
    BY <1>3, <1>4, <1>5, <2>2 DEF Undisturbed, Hidden, ThreadInv, Thread!DeletedStaysHidden
  <2> QED BY <2>1, <2>2
<1>11. hist.stale \subseteq hist'.stale
  BY <1>4, <1>5
<1> QED BY <1>1, <1>2, <1>3, <1>5, <1>9, <1>10, <1>11, ThreadShow

LEMMA ThreadPolled ==
  ASSUME ThreadInv, Thread!PollAnswered PROVE ThreadInv'
<1>1. PICK i \in DOMAIN net :
        LET c == net[i]
            fresh == Thread!Fresh(c.data)
            news == \E m \in Thread!newReal(fresh) : ~m.mine
        IN /\ c.kind = "poll"
           /\ ui' = IF ~c.ok THEN ui
                    ELSE [ui EXCEPT
                            !.shown = {Thread!Real(m) : m \in fresh} \cup Thread!stillPending(fresh),
                            !.below = @ \/ (news /\ ~ui.near)]
           /\ hist' = [hist EXCEPT !.stale = IF c.ok THEN @ \cup Thread!Overtaken(c.data) ELSE @]
           /\ net' = Settled(net, i) /\ srv' = srv
  BY ThreadCalls DEF Thread!PollAnswered, Thread!Answered
<1> DEFINE fresh == Thread!Fresh(net[i].data)
           shown == {Thread!Real(m) : m \in fresh} \cup Thread!stillPending(fresh)
<1>2. Settles(net, net', i) /\ ~ Sends(net, i) /\ ~ Deletes(net, i)
  BY <1>1, ProperSettled DEF ThreadInv, ThreadNet, Sends, Deletes
<1>3. /\ ThreadUi(ui') /\ ui'.text = ui.text /\ ui'.pendingDelete = ui.pendingDelete
      /\ ui'.sending = ui.sending
      /\ net[i].ok => ui'.shown = shown
      /\ ~ net[i].ok => ui'.shown = ui.shown
  <2> HIDE DEF shown
  <2>1. CASE net[i].ok
    <3>1. PICK below : ui' = [ui EXCEPT !.shown = shown, !.below = below]
      BY <1>1, <2>1 DEF shown
    <3> QED BY <2>1, <3>1 DEF ThreadInv, ThreadUi
  <2>2. CASE ~ net[i].ok
    BY <1>1, <2>2 DEF ThreadInv
  <2> QED BY <2>1, <2>2
<1>4. PICK late : late = IF net[i].ok THEN hist.stale \cup Thread!Overtaken(net[i].data) ELSE hist.stale
  OBVIOUS
<1>5. /\ ThreadPast(hist') /\ hist'.msgs = hist.msgs /\ hist'.typed = hist.typed
      /\ hist'.rolledBack = hist.rolledBack /\ hist'.stale = late
  <2>1. hist' = [hist EXCEPT !.stale = late]
    BY <1>1, <1>4
  <2> QED BY <2>1 DEF ThreadInv, ThreadPast
<1>6. \A m : LET c == Thread!Real(m) IN
            c = [temp |-> c.temp, msg |-> c.msg] /\ c.temp = FALSE /\ c.msg = m
  BY DEF Thread!Real
<1>7. net[i].ok => net[i].data \subseteq srv.filed
  BY <1>1 DEF ThreadInv, ThreadNet, ThreadHonest
<1>8. /\ fresh \subseteq net[i].data
      /\ \A m \in fresh : m.n \notin ui.pendingDelete
  BY DEF Thread!Fresh
<1>9. /\ \A c \in Thread!stillPending(fresh) : c \in ui.shown /\ c.temp
      /\ \A c \in Thread!stillPending(fresh), m \in fresh : c.msg # m
  <2>1. \A c \in Thread!stillPending(fresh) :
          c \in ui.shown /\ c.temp
          /\ \A m \in Thread!newReal(fresh) : ~ m.mine \/ m.body # c.msg.body
    BY DEF Thread!stillPending, Thread!isTemp
  <2>2. ASSUME NEW c \in Thread!stillPending(fresh), NEW m \in fresh, c.msg = m PROVE FALSE
    <3>1. c \in ui.shown /\ c.temp /\ c.msg.mine
      BY <2>1 DEF ThreadInv, Clear
    <3>2. Thread!Real(m) \notin ui.shown
      BY <1>6, <2>2, <3>1 DEF ThreadInv, Clear
    <3>3. m \in Thread!newReal(fresh)
      BY <3>2 DEF Thread!newReal
    <3> QED BY <2>1, <2>2, <3>1, <3>3
  <2> QED BY <2>1, <2>2
<1> HIDE DEF fresh
<1>10. Clear(ui'.shown, srv.filed) /\ \A c \in ui'.shown : c.temp => c \in ui.shown
  <2>1. CASE net[i].ok
    <3>1. \A c \in ui'.shown : \/ c \in Thread!stillPending(fresh)
                              \/ \E m \in fresh : c = Thread!Real(m)
      BY <1>3, <2>1
    <3>2. \A c, d \in ui'.shown : c.msg = d.msg => c = d
      BY <1>6, <1>9, <3>1 DEF ThreadInv, Clear
    <3>3. \A c \in ui'.shown : \/ c \in ui.shown /\ c.temp
                              \/ /\ c = [temp |-> c.temp, msg |-> c.msg] /\ c.temp = FALSE
                                 /\ c.msg \in srv.filed
      BY <1>6, <1>7, <1>8, <1>9, <2>1, <3>1
    <3> QED BY <3>2, <3>3 DEF ThreadInv, Clear
  <2>2. CASE ~ net[i].ok
    BY <1>3, <2>2 DEF ThreadInv
  <2> QED BY <2>1, <2>2
<1>11. Undisturbed => Hidden(ui'.shown, ui.pendingDelete, srv.gone, hist'.stale)
  <2>1. CASE net[i].ok
    <3>1. \A c \in ui'.shown : \/ c \in ui.shown
                              \/ \E m \in fresh : c = Thread!Real(m)
      BY <1>3, <1>9, <2>1
    <3>2. hist'.stale = hist.stale \cup Thread!Overtaken(net[i].data)
      BY <1>4, <1>5, <2>1
    <3>3. \A m \in fresh : m.n \notin hist'.stale => m \notin srv.gone
      BY <1>8, <3>2 DEF Thread!Overtaken
    <3> QED BY <1>6, <1>8, <3>1, <3>2, <3>3
            DEF Undisturbed, Hidden, ThreadInv, Thread!DeletedStaysHidden
  <2>2. CASE ~ net[i].ok
    BY <1>3, <1>4, <1>5, <2>2 DEF Undisturbed, Hidden, ThreadInv, Thread!DeletedStaysHidden
  <2> QED BY <2>1, <2>2
<1>12. hist.stale \subseteq hist'.stale
  BY <1>4, <1>5
<1> QED BY <1>1, <1>2, <1>3, <1>5, <1>10, <1>11, <1>12, ThreadShow

LEMMA ThreadSent ==
  ASSUME ThreadInv, Thread!SendAnswered PROVE ThreadInv'
<1>1. PICK i \in DOMAIN net :
        LET m == net[i].arg IN
        /\ net[i].kind = "send"
        /\ ui' = IF net[i].ok THEN Thread!SendDone(m) ELSE Thread!SendFailed(m)
        /\ hist' = [hist EXCEPT !.typed = IF net[i].ok THEN @ ELSE @ \ {ui.text.n},
                                !.stale = IF net[i].ok THEN @ \cup Thread!Stale({m}) ELSE @]
        /\ net' = Settled(net, i) /\ srv' = srv
  BY ThreadCalls DEF Thread!SendAnswered, Thread!Answered
<1>2. PICK m : m = net[i].arg
  OBVIOUS
<1>3. PICK real, temp : real = Thread!Real(m) /\ temp = Thread!Temp(m)
  OBVIOUS
<1>4. /\ real = [temp |-> real.temp, msg |-> real.msg] /\ real.temp = FALSE /\ real.msg = m
      /\ temp = [temp |-> temp.temp, msg |-> temp.msg] /\ temp.temp = TRUE /\ temp.msg = m
  BY <1>3 DEF Thread!Real, Thread!Temp
<1>5. Settles(net, net', i) /\ Sends(net, i)
  BY <1>1, ProperSettled DEF ThreadInv, ThreadNet, Sends
<1>6. /\ m.n \in 1..hist.msgs /\ m.mine
      /\ net[i].ok => m \in srv.filed
      /\ ~ net[i].ok => Alone(m, srv.filed)
  BY <1>1, <1>2 DEF ThreadInv, ThreadNet, ThreadHonest
<1>7. /\ ThreadNet(net', srv.filed, hist.msgs)
      /\ \A j : ~ Sends(net', j)
      /\ TextIsNew(ui.text, net', srv.filed, hist.msgs)
      /\ Undisturbed => OneDelete(net', ui.pendingDelete, hist.stale)
  BY <1>5, ThreadSettle
<1>8. OneSend(net', FALSE)
  BY <1>7 DEF OneSend
<1>9. PICK late : late = IF net[i].ok THEN hist.stale \cup Thread!Stale({m}) ELSE hist.stale
  OBVIOUS
<1>10. PICK typed : typed = IF net[i].ok THEN hist.typed ELSE hist.typed \ {ui.text.n}
  OBVIOUS
<1>11. /\ ThreadPast(hist') /\ hist'.msgs = hist.msgs /\ hist'.typed = typed
       /\ hist'.rolledBack = hist.rolledBack /\ hist'.stale = late
  <2>1. hist' = [hist EXCEPT !.typed = typed, !.stale = late]
    BY <1>1, <1>2, <1>9, <1>10
  <2>2. typed \subseteq hist.typed
    BY <1>10
  <2> QED BY <2>1, <2>2 DEF ThreadInv, ThreadPast
<1>12. (Undisturbed' <=> Undisturbed)
       /\ (Undisturbed => OneDelete(net', ui.pendingDelete, hist'.stale))
  BY <1>7, <1>9, <1>11 DEF Undisturbed, OneDelete
<1>13. /\ \A c \in ui.shown : ~ hist.rolledBack /\ c.temp => c = temp
       /\ \A c \in ui.shown : c.msg = m => c = real \/ c = temp
  <2>1. \A c \in ui.shown : ~ hist.rolledBack /\ c.temp => c.msg = m
    BY <1>2, <1>5 DEF ThreadInv, Thread!NoPhantom, Thread!isTemp, OneSend, Sends
  <2>2. ASSUME NEW c \in ui.shown, c.msg = m PROVE c = real \/ c = temp
    <3>1. c = [temp |-> c.temp, msg |-> m] /\ c.temp \in BOOLEAN
      BY <2>2 DEF ThreadInv, Clear
    <3>2. real = [temp |-> FALSE, msg |-> m] /\ temp = [temp |-> TRUE, msg |-> m]
      BY <1>3 DEF Thread!Real, Thread!Temp
    <3> QED BY ONLY <3>1, <3>2
  <2>3. ASSUME NEW c \in ui.shown, ~ hist.rolledBack, c.temp PROVE c = temp
    BY <1>4, <2>1, <2>2, <2>3
  <2> QED BY <2>2, <2>3
<1>14. CASE net[i].ok
  <2>1. /\ ThreadUi(ui') /\ ui'.text = ui.text /\ ui'.pendingDelete = ui.pendingDelete
        /\ ui'.sending = FALSE /\ ui'.shown = (ui.shown \ {temp, real}) \cup {real}
    BY <1>1, <1>2, <1>3, <1>14 DEF ThreadInv, ThreadUi, Thread!SendDone
  <2>2. Clear(ui'.shown, srv.filed)
    BY <1>4, <1>6, <1>13, <1>14, <2>1 DEF ThreadInv, Clear
  <2>3. Thread!NoPhantom'
    BY <1>4, <1>11, <1>13, <2>1 DEF Thread!NoPhantom, Thread!isTemp
  <2>4. Thread!DeletedStaysHidden'
    BY <1>1, <1>4, <1>9, <1>11, <1>14, <2>1
       DEF ThreadInv, Thread!DeletedStaysHidden, Thread!Stale
  <2>5. Thread!TextKept'
    <3>1. ASSUME NEW n \in hist.typed, NEW k \in DOMAIN net, net[k].kind = "send", net[k].arg.n = n
          PROVE  \E f \in srv.filed : f.n = n
      <4>1. k = i
        BY <1>5, <3>1 DEF ThreadInv, OneSend, Sends
      <4> QED BY <1>2, <1>6, <1>14, <3>1, <4>1
    <3> QED BY <1>1, <1>10, <1>11, <1>14, <2>1, <3>1 DEF ThreadInv, Thread!TextKept
  <2> QED BY <1>1, <1>7, <1>8, <1>11, <1>12, <2>1, <2>2, <2>3, <2>4, <2>5 DEF ThreadInv
<1>15. CASE ~ net[i].ok
  <2>1. /\ ThreadUi(ui') /\ ui'.text = m /\ ui'.pendingDelete = ui.pendingDelete
        /\ ui'.sending = FALSE /\ ui'.shown = ui.shown \ {temp}
    BY <1>1, <1>2, <1>3, <1>15 DEF ThreadInv, ThreadUi, Thread!SendFailed
  <2>2. Clear(ui'.shown, srv.filed)
    BY <2>1 DEF ThreadInv, Clear
  <2>3. TextIsNew(ui'.text, net', srv.filed, hist.msgs)
    BY <1>6, <1>7, <1>15, <2>1 DEF TextIsNew
  <2>4. Thread!NoPhantom'
    BY <1>11, <1>13, <2>1 DEF Thread!NoPhantom, Thread!isTemp
  <2>5. Thread!DeletedStaysHidden'
    BY <1>1, <1>9, <1>11, <1>15, <2>1 DEF ThreadInv, Thread!DeletedStaysHidden
  <2>6. Thread!TextKept'
    <3>1. ASSUME NEW n, NEW k \in DOMAIN net, net[k].kind = "send", net[k].arg.n = n
          PROVE  n = m.n
      <4>1. k = i
        BY <1>5, <3>1 DEF ThreadInv, OneSend, Sends
      <4> QED BY <1>2, <3>1, <4>1
    <3> QED BY <1>1, <1>10, <1>11, <1>15, <2>1, <3>1 DEF ThreadInv, Thread!TextKept
  <2> QED BY <1>1, <1>7, <1>8, <1>11, <1>12, <2>1, <2>2, <2>3, <2>4, <2>5, <2>6 DEF ThreadInv
<1> QED BY <1>14, <1>15

LEMMA ThreadDelete ==
  ASSUME ThreadInv, Thread!handleDelete PROVE ThreadInv'
<1>1. PICK c \in ui.shown :
        /\ c.msg.mine /\ ~ c.temp
        /\ ui' = [ui EXCEPT !.shown = @ \ {c}, !.pendingDelete = @ \cup {c.msg.n}]
        /\ net' = Sent(net, "delete", [n |-> c.msg.n, prev |-> ui.shown])
        /\ UNCHANGED <<srv, hist>>
  BY ThreadCalls DEF Thread!handleDelete, Thread!isTemp
<1>2. PICK arg : arg = [n |-> c.msg.n, prev |-> ui.shown]
  OBVIOUS
<1>3. PICK last : Asks(net, net', last, "delete", arg)
  BY <1>1, <1>2, ProperSent DEF ThreadInv, ThreadNet
<1>4. /\ ThreadUi(ui') /\ ui'.shown = ui.shown \ {c} /\ ui'.text = ui.text
      /\ ui'.pendingDelete = ui.pendingDelete \cup {c.msg.n} /\ ui'.sending = ui.sending
  BY <1>1 DEF ThreadInv, ThreadUi
<1>5. c.msg \in srv.filed
  BY <1>1 DEF ThreadInv, Clear
<1>6. ThreadHonest(net'[last], srv.filed, hist.msgs)
  <2>1. arg.n = c.msg.n /\ arg.prev = ui.shown
    BY <1>2
  <2>2. Clear(ui.shown, srv.filed)
    BY DEF ThreadInv
  <2> QED BY <1>3, <1>5, <2>1, <2>2 DEF Asks, ThreadHonest
<1>7. /\ ThreadNet(net', srv.filed, hist.msgs)
      /\ \A j : Sends(net', j) <=> Sends(net, j)
      /\ \A j : Deletes(net', j) <=> Deletes(net, j) \/ j = last
      /\ \A j : Sends(net, j) \/ Deletes(net, j) => net'[j] = net[j]
      /\ net'[last].arg = arg /\ arg.n = c.msg.n
  BY <1>2, <1>3, <1>6, ThreadAsk
<1>8. OneSend(net', ui.sending) /\ TextIsNew(ui.text, net', srv.filed, hist.msgs)
  BY <1>7 DEF ThreadInv, OneSend, TextIsNew
<1>9. Undisturbed => OneDelete(net', ui'.pendingDelete, hist.stale)
  <2>1. Undisturbed => c.msg.n \in hist.stale \/ c.msg.n \notin ui.pendingDelete
    BY DEF ThreadInv, Undisturbed, Thread!DeletedStaysHidden
  <2>2. \A j : Deletes(net', j) /\ j # last => Deletes(net, j) /\ net'[j] = net[j]
    BY <1>7
  <2>3. Undisturbed => OneDelete(net, ui.pendingDelete, hist.stale)
    BY DEF ThreadInv
  <2> HIDE DEF ThreadInv
  <2>4. Undisturbed => \A j : Deletes(net', j) /\ j # last =>
                          net'[j].arg.n # c.msg.n \/ c.msg.n \in hist.stale
    BY <2>1, <2>2, <2>3 DEF OneDelete
  <2> QED BY <1>4, <1>7, <2>2, <2>3, <2>4 DEF OneDelete
<1>10. Clear(ui'.shown, srv.filed) /\ \A n \in ui'.pendingDelete : \E m \in srv.filed : m.n = n
  BY <1>4, <1>5 DEF ThreadInv, Clear
<1>11. Thread!NoPhantom' /\ Thread!TextKept'
  BY <1>1, <1>3, <1>4 DEF ThreadInv, Asks, Thread!NoPhantom, Thread!TextKept, Thread!isTemp
<1>12. Thread!DeletedStaysHidden'
  <2>1. ASSUME Undisturbed, NEW d \in ui.shown, d.msg.n = c.msg.n PROVE d.msg = c.msg
    <3>1. \A m \in srv.filed : m.n = c.msg.n => m = c.msg
      BY <1>5 DEF ThreadInv, ThreadFiled
    <3>2. CASE ~ d.temp
      BY <2>1, <3>1, <3>2 DEF ThreadInv, Clear
    <3>3. CASE d.temp
      <4>1. PICK i \in DOMAIN net : net[i].kind = "send" /\ net[i].arg = d.msg
        BY <2>1, <3>3 DEF ThreadInv, Undisturbed, Thread!NoPhantom, Thread!isTemp
      <4>2. d.msg \in srv.filed \/ Alone(d.msg, srv.filed)
        BY <4>1 DEF ThreadInv, ThreadNet, ThreadHonest
      <4> QED BY <1>5, <2>1, <3>1, <4>2 DEF Alone
    <3> QED BY <3>2, <3>3
  <2>2. Undisturbed => \A d \in ui'.shown : d.msg.n # c.msg.n
    BY <1>4, <2>1 DEF ThreadInv, Clear
  <2> QED BY <1>1, <1>4, <2>2 DEF ThreadInv, Undisturbed, Thread!DeletedStaysHidden
<1> QED BY <1>1, <1>4, <1>7, <1>8, <1>9, <1>10, <1>11, <1>12 DEF ThreadInv, Undisturbed

LEMMA ThreadDeleted ==
  ASSUME ThreadInv, Thread!DeleteAnswered PROVE ThreadInv'
<1>1. PICK i \in DOMAIN net :
        /\ net[i].kind = "delete"
        /\ ui' = [ui EXCEPT !.pendingDelete = @ \ {net[i].arg.n},
                            !.shown = IF net[i].ok THEN @ ELSE net[i].arg.prev]
        /\ hist' = [hist EXCEPT !.rolledBack = @ \/ ~ net[i].ok]
        /\ net' = Settled(net, i) /\ srv' = srv
  BY ThreadCalls DEF Thread!DeleteAnswered, Thread!Answered
<1>2. Settles(net, net', i) /\ Deletes(net, i) /\ ~ Sends(net, i)
  BY <1>1, ProperSettled DEF ThreadInv, ThreadNet, Sends, Deletes
<1>3. PICK shown : shown = IF net[i].ok THEN ui.shown ELSE net[i].arg.prev
  OBVIOUS
<1>4. /\ ThreadUi(ui') /\ ui'.shown = shown /\ ui'.text = ui.text
      /\ ui'.pendingDelete = ui.pendingDelete \ {net[i].arg.n} /\ ui'.sending = ui.sending
  <2>1. ui' = [ui EXCEPT !.pendingDelete = @ \ {net[i].arg.n}, !.shown = shown]
    BY <1>1, <1>3
  <2> QED BY <2>1 DEF ThreadInv, ThreadUi
<1>5. PICK b \in BOOLEAN : b = (hist.rolledBack \/ ~ net[i].ok)
  OBVIOUS
<1>6. /\ ThreadPast(hist') /\ hist'.msgs = hist.msgs /\ hist'.typed = hist.typed
      /\ hist'.rolledBack = b /\ hist'.stale = hist.stale
  <2>1. hist' = [hist EXCEPT !.rolledBack = b]
    BY <1>1, <1>5
  <2> QED BY <2>1 DEF ThreadInv, ThreadPast
<1>7. /\ ThreadNet(net', srv.filed, hist.msgs)
      /\ OneSend(net', ui.sending)
      /\ \A k : Sends(net, k) => \E j : Sends(net', j) /\ net'[j] = net[k]
      /\ TextIsNew(ui.text, net', srv.filed, hist.msgs)
      /\ Undisturbed => OneDelete(net', ui'.pendingDelete, hist.stale)
  BY <1>2, <1>4, ThreadSettle
<1>8. Undisturbed' => Undisturbed /\ net[i].ok
  BY <1>5, <1>6 DEF Undisturbed
<1>9. Clear(ui'.shown, srv.filed)
  BY <1>1, <1>3, <1>4 DEF ThreadInv, ThreadNet, ThreadHonest
<1>10. \A n \in ui'.pendingDelete : \E m \in srv.filed : m.n = n
  BY <1>4 DEF ThreadInv
<1>11. Thread!NoPhantom' /\ Thread!DeletedStaysHidden'
  <2>1. ~ hist'.rolledBack => ~ hist.rolledBack /\ ui'.shown = ui.shown
    BY <1>3, <1>4, <1>5, <1>6
  <2>2. Thread!NoPhantom'
    BY <1>7, <2>1 DEF ThreadInv, Sends, Thread!NoPhantom
  <2>3. Thread!DeletedStaysHidden'
    BY <1>1, <1>4, <1>6, <2>1 DEF ThreadInv, Thread!DeletedStaysHidden
  <2> QED BY <2>2, <2>3
<1>12. Thread!TextKept'
  BY <1>1, <1>4, <1>6, <1>7 DEF ThreadInv, Sends, Thread!TextKept
<1> QED BY <1>1, <1>4, <1>6, <1>7, <1>8, <1>9, <1>10, <1>11, <1>12 DEF ThreadInv

LEMMA ThreadNext ==
  ASSUME ThreadInv, [Thread!Next]_(Thread!vars) PROVE ThreadInv'
<1>1. CASE UNCHANGED Thread!vars
  BY <1>1 DEF Thread!vars, ThreadInv, Undisturbed, Thread!NoPhantom, Thread!DeletedStaysHidden,
              Thread!TextKept
<1> QED BY <1>1, ThreadBackend, ThreadOthersWrite, ThreadLook, ThreadLoaded, ThreadPolled,
           ThreadScroll, ThreadType, ThreadSend, ThreadSent, ThreadDelete, ThreadDeleted
        DEF Thread!Next

\* However many messages, polls, sends and deletes overlap, and whatever answers are
\* lost: a message is on screen once; a placeholder is a message on its way; a comment
\* the user deletes stays off the screen while its delete is on its way and after, unless
\* an answer older than the delete comes when the delete is done, which the code lets
\* bring it back, or another delete fails and puts its list back; and a typed text is
\* in the composer, on its way or filed.
THEOREM CommentsKept ==
  Thread!Spec => [](/\ Thread!NoDuplicateShown /\ Thread!NoPhantom
                    /\ Thread!DeletedStaysHidden /\ Thread!TextKept)
<1>1. ThreadInv => /\ Thread!NoDuplicateShown /\ Thread!NoPhantom
                   /\ Thread!DeletedStaysHidden /\ Thread!TextKept
  BY DEF ThreadInv, Clear, Thread!NoDuplicateShown
<1> QED BY <1>1, ThreadInit, ThreadNext, PTL DEF Thread!Spec

-----------------------------------------------------------------------------
(* The page of a service.  Unless an answer was lost, or the page was left    *)
(* before it came, a comment is in the form, on its way or filed, and in the  *)
(* form and filed at once only while the answer that empties the form is on   *)
(* its way.                                                                   *)

CONSTANTS ServiceMenus, Events, MaxReviews

Service == INSTANCE ServicePage WITH Menus <- ServiceMenus, MaxTexts <- MaxReviews

LEMMA ServiceCalls ==
  /\ \A n, i, d : Service!Served(n, i, d) = Served(n, i, d)
  /\ \A n, i, d : Service!Refused(n, i, d) = Refused(n, i, d)
  /\ \A n, i : Service!Settled(n, i) = Settled(n, i)
  /\ \A n, k, a : Service!Sent(n, k, a) = Sent(n, k, a)
  /\ \A n, ks : Service!Unheard(n, ks) = Unheard(n, ks)
  /\ \A n, k : Service!InFlight(n, k) <=> InFlight(n, k)
BY DEF Service!Served, Served, Service!Refused, Refused, Service!Settled, Settled,
       Service!RemoveAt, RemoveAt, Service!Sent, Sent, Service!Call, Call,
       Service!Unheard, Unheard, Service!InFlight, InFlight

ServiceUi(u) ==
    /\ u = [signedIn |-> u.signedIn, at |-> u.at]
    /\ u.at = [viewed |-> u.at.viewed, views |-> u.at.views, loading |-> u.at.loading,
               panel |-> u.at.panel, events |-> u.at.events, added |-> u.at.added,
               text |-> u.at.text, submitting |-> u.at.submitting]
    /\ u.at.submitting \in BOOLEAN

ServicePast(h) ==
    /\ h = [texts |-> h.texts, submitted |-> h.submitted, wandered |-> h.wandered,
            unheard |-> h.unheard]
    /\ h.texts \in Nat /\ h.unheard \in BOOLEAN

\* A comment on its way, and one the backend has.
Posts(n, i) == i \in DOMAIN n /\ n[i].kind = "comment"
Has(comments, text) == \E k \in DOMAIN comments : comments[k] = text

ServiceFiled(s, texts) ==
    /\ s = [shortlist |-> s.shortlist, comments |-> s.comments]
    /\ s.comments \in Seq(Nat)
    /\ \A k \in DOMAIN s.comments : s.comments[k] \in 1..texts

ServiceNet(n, texts) == Proper(n) /\ \A i : Posts(n, i) => n[i].arg \in 1..texts

OnePost(n, submitting) ==
    /\ \A i : Posts(n, i) => n[i].here
    /\ \A i, j : Posts(n, i) /\ Posts(n, j) => i = j
    /\ ~ submitting => \A i : ~ Posts(n, i)

\* A comment the backend has not taken is not there.
PostsAreNew(n, comments) == \A i : Posts(n, i) /\ ~ n[i].ok => ~ Has(comments, n[i].arg)

TextToPost(text, n, comments) ==
    text # 0 /\ Has(comments, text) => \E i : Posts(n, i) /\ n[i].ok /\ n[i].arg = text

AllHeard(n, submitting, text, comments) ==
    /\ OnePost(n, submitting) /\ PostsAreNew(n, comments) /\ TextToPost(text, n, comments)
    /\ \A j, k \in DOMAIN comments : comments[j] = comments[k] => j = k

ServiceInv ==
    /\ ServiceUi(ui) /\ ServicePast(hist)
    /\ ServiceFiled(srv, hist.texts) /\ ServiceNet(net, hist.texts)
    /\ ui.at.text \in 0..hist.texts
    /\ ~ hist.unheard => AllHeard(net, ui.at.submitting, ui.at.text, srv.comments)

LEMMA ServiceInit ==
  ASSUME Service!Init PROVE ServiceInv
<1>1. /\ ServiceUi(ui) /\ ui.at.text = 0 /\ ~ ui.at.submitting
  <2>1. PICK s, v : ui = [signedIn |-> s,
                          at |-> [viewed |-> v, views |-> FALSE, loading |-> TRUE,
                                  panel |-> FALSE, events |-> None, added |-> {},
                                  text |-> 0, submitting |-> FALSE]]
    BY DEF Service!Init, Service!Fresh
  <2> QED BY <2>1 DEF ServiceUi
<1>2. Proper(net) /\ DOMAIN net = {}
  BY ProperEmpty DEF Service!Init
<1>3. ServicePast(hist)
  BY DEF Service!Init, ServicePast
<1>4. PICK e \in Seq(Nat) : e = << >> /\ Len(e) = 0
  BY EmptySeq
<1>5. srv = [shortlist |-> {}, comments |-> e] /\ DOMAIN e = {}
  BY <1>4, LenProperties DEF Service!Init
<1>6. srv.comments \in Seq(Nat) /\ DOMAIN srv.comments = {} /\ ServiceFiled(srv, hist.texts)
  BY <1>5 DEF ServiceFiled
<1>7. ServiceNet(net, hist.texts) /\ AllHeard(net, ui.at.submitting, ui.at.text, srv.comments)
  BY <1>1, <1>2, <1>6 DEF ServiceNet, AllHeard, OnePost, PostsAreNew, TextToPost, Posts
<1> QED BY <1>1, <1>3, <1>6, <1>7 DEF ServiceInv, ServicePast

\* An answer, a call's end and a call, as they bear on comments.
LEMMA ServiceAnswer ==
  ASSUME NEW n, NEW m, NEW i \in DOMAIN n, n[i].kind = "comment" => ~ n[i].ok,
         NEW data, NEW ok, Answers(n, i, m, data, ok),
         NEW texts, ServiceNet(n, texts)
  PROVE  /\ ServiceNet(m, texts)
         /\ \A submitting : OnePost(n, submitting) => OnePost(m, submitting)
         /\ \A comments : PostsAreNew(n, comments) => PostsAreNew(m, comments)
         /\ \A text, comments : TextToPost(text, n, comments) => TextToPost(text, m, comments)
<1>1. /\ Proper(m) /\ DOMAIN m = DOMAIN n
      /\ \A j \in DOMAIN n \ {i} : m[j] = n[j]
      /\ \A j \in DOMAIN n : m[j].kind = n[j].kind /\ m[j].arg = n[j].arg /\ m[j].here = n[j].here
      /\ Posts(n, i) => ~ n[i].ok
  BY DEF Answers, Posts
<1>2. \A j : Posts(m, j) <=> Posts(n, j)
  BY <1>1 DEF Posts
<1>3. ServiceNet(m, texts)
  BY <1>1, <1>2 DEF ServiceNet, Posts
<1>4. \A submitting : OnePost(n, submitting) => OnePost(m, submitting)
  BY <1>1, <1>2 DEF OnePost, Posts
<1>5. \A comments : PostsAreNew(n, comments) => PostsAreNew(m, comments)
  BY <1>1, <1>2 DEF PostsAreNew, Posts
<1>6. \A text, comments : TextToPost(text, n, comments) => TextToPost(text, m, comments)
  BY <1>1, <1>2 DEF TextToPost, Posts
<1> QED BY <1>3, <1>4, <1>5, <1>6

LEMMA ServiceSettle ==
  ASSUME NEW n, NEW m, NEW i, Settles(n, m, i), NEW texts, ServiceNet(n, texts),
         NEW submitting, NEW text, NEW comments
  PROVE  /\ ServiceNet(m, texts)
         /\ OnePost(n, submitting) => OnePost(m, submitting)
         /\ PostsAreNew(n, comments) => PostsAreNew(m, comments)
         /\ TextToPost(text, n, comments) /\ ~ (Posts(n, i) /\ n[i].ok)
               => TextToPost(text, m, comments)
         /\ Posts(n, i) /\ OnePost(n, submitting) => \A j : ~ Posts(m, j)
<1>1. /\ \A j : Posts(m, j) => Posts(n, From(i, j)) /\ m[j] = n[From(i, j)] /\ From(i, j) # i
      /\ \A j, k : Posts(m, j) /\ Posts(m, k) /\ From(i, j) = From(i, k) => j = k
      /\ \A k : Posts(n, k) /\ k # i => \E j : Posts(m, j) /\ m[j] = n[k]
      /\ Proper(m)
  BY DEF Settles, Posts
<1>2. ServiceNet(m, texts)
  BY <1>1 DEF ServiceNet
<1>3. OnePost(n, submitting) => OnePost(m, submitting)
  BY <1>1 DEF OnePost
<1>4. PostsAreNew(n, comments) => PostsAreNew(m, comments)
  BY <1>1 DEF PostsAreNew
<1>5. TextToPost(text, n, comments) /\ ~ (Posts(n, i) /\ n[i].ok) => TextToPost(text, m, comments)
  BY <1>1 DEF TextToPost
<1>6. Posts(n, i) /\ OnePost(n, submitting) => \A j : ~ Posts(m, j)
  BY <1>1 DEF OnePost
<1> QED BY <1>2, <1>3, <1>4, <1>5, <1>6

LEMMA ServiceAsk ==
  ASSUME NEW n, NEW m, NEW last, NEW kind, NEW arg, Asks(n, m, last, kind, arg), kind # "comment",
         NEW texts, ServiceNet(n, texts), NEW submitting, NEW text, NEW comments
  PROVE  /\ ServiceNet(m, texts)
         /\ AllHeard(n, submitting, text, comments) => AllHeard(m, submitting, text, comments)
<1>1. \A j : (Posts(m, j) <=> Posts(n, j)) /\ (Posts(n, j) => m[j] = n[j])
  BY DEF Asks, Posts
<1>2. ServiceNet(m, texts)
  BY <1>1 DEF ServiceNet, Asks
<1>3. OnePost(n, submitting) => OnePost(m, submitting)
  BY <1>1 DEF OnePost
<1>4. PostsAreNew(n, comments) => PostsAreNew(m, comments)
  BY <1>1 DEF PostsAreNew
<1>5. TextToPost(text, n, comments) => TextToPost(text, m, comments)
  BY <1>1 DEF TextToPost
<1> QED BY <1>2, <1>3, <1>4, <1>5 DEF AllHeard

LEMMA ServiceBackend ==
  ASSUME ServiceInv, Service!Backend PROVE ServiceInv'
<1>1. ui' = ui
  BY DEF Service!Backend
<1>2. /\ Proper(net) /\ ServiceNet(net, hist.texts) /\ ServicePast(hist)
      /\ ServiceFiled(srv, hist.texts)
  BY DEF ServiceInv, ServiceNet
<1>3. ASSUME NEW i \in DOMAIN net, net[i].kind = "comment" => ~ net[i].ok, NEW data, NEW ok,
             Answers(net, i, net', data, ok), hist' = hist,
             srv'.comments = srv.comments, ServiceFiled(srv', hist.texts)
      PROVE  ServiceInv'
  <2>1. /\ ServiceNet(net', hist.texts)
        /\ \A submitting : OnePost(net, submitting) => OnePost(net', submitting)
        /\ \A comments : PostsAreNew(net, comments) => PostsAreNew(net', comments)
        /\ \A text, comments : TextToPost(text, net, comments) => TextToPost(text, net', comments)
    BY <1>2, <1>3, ServiceAnswer
  <2>2. AllHeard(net, ui.at.submitting, ui.at.text, srv.comments) =>
          AllHeard(net', ui.at.submitting, ui.at.text, srv.comments)
    BY <2>1 DEF AllHeard
  <2> QED BY <1>1, <1>3, <2>1, <2>2 DEF ServiceInv
<1>4. CASE Service!ServeCandidate
  <2>1. PICK i \in DOMAIN net :
          /\ net[i].kind = "candidate" /\ net' = Served(net, i, None) /\ hist' = hist
          /\ srv' = [srv EXCEPT !.shortlist = @ \cup {net[i].arg}]
    BY <1>4, ServiceCalls DEF Service!ServeCandidate, Service!Waiting
  <2>2. Answers(net, i, net', None, TRUE)
    BY <1>2, <2>1, ProperAnswered
  <2>3. srv'.comments = srv.comments /\ ServiceFiled(srv', hist.texts)
    BY <1>2, <2>1 DEF ServiceFiled
  <2> QED BY <1>3, <2>1, <2>2, <2>3
<1>5. CASE Service!ServeLook \/ Service!ServeRefusal \/ Service!AnswerLost
  <2>1. PICK i \in DOMAIN net :
          /\ net[i].kind = "comment" => ~ net[i].ok
          /\ UNCHANGED <<srv, hist>>
          /\ net' = Served(net, i, None) \/ net' = Refused(net, i, None)
    <3>1. \A i \in DOMAIN net : net[i].stage = "sent" => ~ net[i].ok
      BY <1>2 DEF Proper, IsCall
    <3> QED BY <1>5, <3>1, ServiceCalls
            DEF Service!ServeLook, Service!ServeRefusal, Service!AnswerLost,
                Service!Waiting, Service!Coming
  <2>2. Answers(net, i, net', None, TRUE) \/ Answers(net, i, net', None, FALSE)
    BY <1>2, <2>1, ProperAnswered
  <2> QED BY <1>2, <1>3, <2>1, <2>2
<1>6. CASE Service!ServeComment
  <2>1. PICK i, lost, a :
          /\ i \in DOMAIN net /\ lost \in BOOLEAN
          /\ net[i].kind = "comment" /\ net[i].stage = "sent" /\ net[i].arg = a
          /\ srv' = [srv EXCEPT !.comments = Append(@, a)]
          /\ net' = IF lost THEN Refused(net, i, None) ELSE Served(net, i, None)
          /\ hist' = [hist EXCEPT !.unheard = @ \/ lost]
    BY <1>6, ServiceCalls DEF Service!ServeComment, Service!Waiting
  <2>2. PICK ok \in BOOLEAN : Answers(net, i, net', None, ok) /\ (~ lost => ok)
    <3>1. Answers(net, i, net', None, TRUE) \/ (lost /\ Answers(net, i, net', None, FALSE))
      BY <1>2, <2>1, ProperAnswered
    <3> QED BY <3>1
  <2>3. /\ ServicePast(hist') /\ hist'.texts = hist.texts
        /\ hist'.unheard <=> hist.unheard \/ lost
    BY <1>2, <2>1 DEF ServicePast
  <2>4. a \in 1..hist.texts /\ hist.texts \in Nat /\ ~ net[i].ok /\ Posts(net, i)
    BY <1>2, <2>1 DEF ServiceNet, ServicePast, Posts, Proper, IsCall
  <2>5. PICK comments : comments = Append(srv.comments, a)
    OBVIOUS
  <2>6. PICK len \in Nat :
          /\ srv.comments \in Seq(Nat) /\ DOMAIN srv.comments = 1..len
          /\ comments \in Seq(Nat) /\ DOMAIN comments = 1..len + 1
          /\ \A k \in 1..len : comments[k] = srv.comments[k]
          /\ comments[len + 1] = a
    <3>1. srv.comments \in Seq(Nat) /\ a \in Nat
      BY <1>2, <2>4 DEF ServiceFiled
    <3>2. /\ Append(srv.comments, a) \in Seq(Nat)
          /\ Len(Append(srv.comments, a)) = Len(srv.comments) + 1
          /\ \A k \in 1..Len(srv.comments) : Append(srv.comments, a)[k] = srv.comments[k]
          /\ Append(srv.comments, a)[Len(srv.comments) + 1] = a
      BY <3>1, AppendProperties
    <3> QED BY <2>5, <3>1, <3>2, LenProperties
  <2>7. srv'.comments = comments /\ srv' = [shortlist |-> srv.shortlist, comments |-> comments]
    BY <1>2, <2>1, <2>5 DEF ServiceFiled
  <2>8. ServiceFiled(srv', hist.texts)
    <3>1. \A k \in 1..len : comments[k] \in 1..hist.texts
      BY <1>2, <2>6 DEF ServiceFiled
    <3>2. \A k \in DOMAIN comments : k \in 1..len \/ k = len + 1
      BY <2>6
    <3>3. \A k \in DOMAIN comments : comments[k] \in 1..hist.texts
      BY <2>4, <2>6, <3>1, <3>2
    <3> QED BY <2>6, <2>7, <3>3 DEF ServiceFiled
  <2>9. \A t : Has(comments, t) <=> (Has(srv.comments, t) \/ t = a)
    <3>1. /\ \A k \in DOMAIN comments : k \in DOMAIN srv.comments \/ k = len + 1
          /\ \A k \in DOMAIN srv.comments : k \in DOMAIN comments /\ comments[k] = srv.comments[k]
          /\ len + 1 \in DOMAIN comments
      BY <2>6
    <3> QED BY <2>6, <3>1 DEF Has
  <2>10. /\ ServiceNet(net', hist.texts)
         /\ \A submitting : OnePost(net, submitting) => OnePost(net', submitting)
         /\ \A cs : PostsAreNew(net, cs) => PostsAreNew(net', cs)
         /\ \A text, cs : TextToPost(text, net, cs) => TextToPost(text, net', cs)
    BY <1>2, <2>1, <2>2, <2>4, ServiceAnswer
  <2>11. ASSUME ~ hist'.unheard
         PROVE  AllHeard(net', ui.at.submitting, ui.at.text, comments)
    <3>1. /\ AllHeard(net, ui.at.submitting, ui.at.text, srv.comments) /\ ok = TRUE
      BY <2>2, <2>3, <2>11 DEF ServiceInv
    <3>2. OnePost(net', ui.at.submitting)
      BY <2>10, <3>1 DEF AllHeard
    <3>3. Posts(net', i) /\ net'[i].ok /\ net'[i].arg = a
      BY <2>1, <2>2, <2>4, <3>1 DEF Answers, Posts
    <3>4. PostsAreNew(net', comments)
      BY <3>2, <3>3 DEF PostsAreNew, OnePost
    <3>5. TextToPost(ui.at.text, net', comments)
      BY <2>9, <2>10, <3>1, <3>3 DEF TextToPost, AllHeard
    <3>6. ~ Has(srv.comments, a)
      BY <2>1, <2>4, <3>1 DEF AllHeard, PostsAreNew
    <3>7. \A j, k \in DOMAIN comments : comments[j] = comments[k] => j = k
      <4>1. \A k \in DOMAIN comments :
               k = len + 1 \/ (k \in DOMAIN srv.comments /\ comments[k] = srv.comments[k] /\ comments[k] # a)
        BY <2>6, <3>6 DEF Has
      <4> QED BY <2>6, <3>1, <4>1 DEF AllHeard
    <3> QED BY <3>2, <3>4, <3>5, <3>7 DEF AllHeard
  <2> QED BY <1>1, <2>3, <2>7, <2>8, <2>10, <2>11 DEF ServiceInv
<1> QED BY <1>4, <1>5, <1>6 DEF Service!Backend

LEMMA ServiceOpens ==
  ASSUME ServiceInv, Service!Open PROVE ServiceInv'
<1>1. /\ ui' = [ui EXCEPT !.at = Service!Fresh] /\ srv' = srv
      /\ net' = Sent(Sent(Unheard(net, Service!Kinds), "view", None), "comments", None)
      /\ hist' = [hist EXCEPT !.wandered = FALSE, !.submitted = 0,
                              !.unheard = @ \/ InFlight(net, "comment")]
  BY ServiceCalls DEF Service!Open
<1>2. PICK m : m = Unheard(net, Service!Kinds)
  OBVIOUS
<1>3. Silences(net, m, Service!Kinds)
  BY <1>2, ProperUnheard DEF ServiceInv, ServiceNet
<1>4. ServiceNet(m, hist.texts) /\ \A j : Posts(m, j) <=> Posts(net, j)
  BY <1>3 DEF Silences, Posts, ServiceInv, ServiceNet
<1>5. PICK k : k = Sent(m, "view", None)
  OBVIOUS
<1>6. PICK last1 : Asks(m, k, last1, "view", None)
  BY <1>4, <1>5, ProperSent DEF ServiceNet
<1>7. ServiceNet(k, hist.texts) /\ \A j : Posts(k, j) <=> Posts(m, j)
  BY <1>4, <1>6, ServiceAsk DEF Asks, Posts
<1>8. PICK last2 : Asks(k, net', last2, "comments", None)
  BY <1>1, <1>2, <1>5, <1>7, ProperSent DEF ServiceNet
<1>9. ServiceNet(net', hist.texts) /\ \A j : Posts(net', j) <=> Posts(k, j)
  BY <1>7, <1>8, ServiceAsk DEF Asks, Posts
<1>10. /\ ServicePast(hist') /\ hist'.texts = hist.texts
       /\ hist'.unheard <=> hist.unheard \/ InFlight(net, "comment")
  <2>1. PICK b \in BOOLEAN : b = (hist.unheard \/ InFlight(net, "comment"))
    OBVIOUS
  <2>2. hist' = [hist EXCEPT !.wandered = FALSE, !.submitted = 0, !.unheard = b]
    BY <1>1, <2>1
  <2> QED BY <2>1, <2>2 DEF ServiceInv, ServicePast
<1>11. ServiceUi(ui') /\ ui'.at.text = 0 /\ ui'.at.submitting = FALSE
  BY <1>1 DEF ServiceInv, ServiceUi, Service!Fresh
<1>12. ~ hist'.unheard => \A j : ~ Posts(net', j)
  BY <1>4, <1>7, <1>9, <1>10 DEF InFlight, Posts
<1>13. ~ hist'.unheard => AllHeard(net', FALSE, 0, srv.comments)
  BY <1>10, <1>12 DEF ServiceInv, AllHeard, OnePost, PostsAreNew, TextToPost
<1>14. ServiceFiled(srv', hist'.texts) /\ ServiceNet(net', hist'.texts)
  BY <1>1, <1>9, <1>10 DEF ServiceInv
<1>15. ui'.at.text \in 0..hist'.texts
  BY <1>10, <1>11 DEF ServicePast
<1>16. ~ hist'.unheard => AllHeard(net', ui'.at.submitting, ui'.at.text, srv'.comments)
  BY <1>1, <1>11, <1>13
<1> QED BY <1>10, <1>11, <1>14, <1>15, <1>16 DEF ServiceInv

\* What goes on on the page besides.
LEMMA ServiceElsewhere ==
  ASSUME ServiceInv, ServiceUi(ui'), ui'.at.text = ui.at.text,
         ui'.at.submitting = ui.at.submitting, srv' = srv,
         ServicePast(hist'), hist'.texts = hist.texts, hist'.unheard = hist.unheard,
         \/ net' = net
         \/ \E i \in DOMAIN net : net[i].kind # "comment" /\ net' = Settled(net, i)
         \/ \E kind, arg : kind # "comment" /\ net' = Sent(net, kind, arg)
  PROVE  ServiceInv'
<1>1. Proper(net) /\ ServiceNet(net, hist.texts)
  BY DEF ServiceInv, ServiceNet
<1>2. /\ ServiceNet(net', hist.texts)
      /\ AllHeard(net, ui.at.submitting, ui.at.text, srv.comments) =>
           AllHeard(net', ui.at.submitting, ui.at.text, srv.comments)
  <2>1. CASE net' = net
    BY <1>1, <2>1
  <2>2. CASE \E i \in DOMAIN net : net[i].kind # "comment" /\ net' = Settled(net, i)
    <3>1. PICK i \in DOMAIN net : net[i].kind # "comment" /\ net' = Settled(net, i)
      BY <2>2
    <3>2. Settles(net, net', i)
      BY <1>1, <3>1, ProperSettled
    <3> QED BY <1>1, <3>1, <3>2, ServiceSettle DEF AllHeard, Posts
  <2>3. CASE \E kind, arg : kind # "comment" /\ net' = Sent(net, kind, arg)
    <3>1. PICK kind, arg : kind # "comment" /\ net' = Sent(net, kind, arg)
      BY <2>3
    <3>2. PICK last : Asks(net, net', last, kind, arg)
      BY <1>1, <3>1, ProperSent
    <3> QED BY <1>1, <3>1, <3>2, ServiceAsk
  <2> QED BY <2>1, <2>2, <2>3
<1> QED BY <1>2 DEF ServiceInv

LEMMA ServiceOther ==
  ASSUME ServiceInv,
         \/ Service!LookAnswered \/ Service!ViewMenu \/ Service!SignInOrOut
         \/ Service!handleOpen \/ Service!EventsAnswered \/ Service!CloseOutside
         \/ Service!handleAdd \/ Service!CandidateAnswered
  PROVE  ServiceInv'
<1>1. ServiceUi(ui') /\ ui'.at.text = ui.at.text /\ ui'.at.submitting = ui.at.submitting
  <2>1. PICK x, y : \/ ui' = ui
                    \/ ui' = [ui EXCEPT !.at.loading = x]
                    \/ ui' = [ui EXCEPT !.at.views = x]
                    \/ ui' = [ui EXCEPT !.at.viewed = x, !.at.panel = y]
                    \/ ui' = [ui EXCEPT !.signedIn = x, !.at.panel = y]
                    \/ ui' = [ui EXCEPT !.at.panel = x]
                    \/ ui' = [ui EXCEPT !.at.events = x]
                    \/ ui' = [ui EXCEPT !.at.added = x]
    BY DEF Service!LookAnswered, Service!ViewMenu, Service!SignInOrOut, Service!handleOpen,
           Service!EventsAnswered, Service!CloseOutside, Service!handleAdd,
           Service!CandidateAnswered
  <2>2. ServiceUi(ui)
    BY DEF ServiceInv
  <2>3. CASE ui' = ui
    BY <2>2, <2>3
  <2>4. CASE ui' = [ui EXCEPT !.at.loading = x]
    BY ONLY <2>2, <2>4 DEF ServiceUi
  <2>5. CASE ui' = [ui EXCEPT !.at.views = x]
    BY ONLY <2>2, <2>5 DEF ServiceUi
  <2>6. CASE ui' = [ui EXCEPT !.at.viewed = x, !.at.panel = y]
    BY ONLY <2>2, <2>6 DEF ServiceUi
  <2>7. CASE ui' = [ui EXCEPT !.signedIn = x, !.at.panel = y]
    BY ONLY <2>2, <2>7 DEF ServiceUi
  <2>8. CASE ui' = [ui EXCEPT !.at.panel = x]
    BY ONLY <2>2, <2>8 DEF ServiceUi
  <2>9. CASE ui' = [ui EXCEPT !.at.events = x]
    BY ONLY <2>2, <2>9 DEF ServiceUi
  <2>10. CASE ui' = [ui EXCEPT !.at.added = x]
    BY ONLY <2>2, <2>10 DEF ServiceUi
  <2> QED BY <2>1, <2>3, <2>4, <2>5, <2>6, <2>7, <2>8, <2>9, <2>10
<1>2. srv' = srv /\ ServicePast(hist') /\ hist'.texts = hist.texts /\ hist'.unheard = hist.unheard
  <2>1. srv' = srv /\ (hist' = hist \/ hist' = [hist EXCEPT !.wandered = TRUE])
    BY DEF Service!LookAnswered, Service!ViewMenu, Service!SignInOrOut, Service!handleOpen,
           Service!EventsAnswered, Service!CloseOutside, Service!handleAdd,
           Service!CandidateAnswered
  <2> QED BY <2>1 DEF ServiceInv, ServicePast
<1>3. \/ net' = net
      \/ \E i \in DOMAIN net : net[i].kind # "comment" /\ net' = Settled(net, i)
      \/ \E kind, arg : kind # "comment" /\ net' = Sent(net, kind, arg)
  BY ServiceCalls
     DEF Service!LookAnswered, Service!ViewMenu, Service!SignInOrOut, Service!handleOpen,
         Service!EventsAnswered, Service!CloseOutside, Service!handleAdd,
         Service!CandidateAnswered, Service!Answered
<1> QED BY <1>1, <1>2, <1>3, ServiceElsewhere

LEMMA ServiceTyped ==
  ASSUME ServiceInv, Service!Type PROVE ServiceInv'
<1>1. /\ ui' = [ui EXCEPT !.at.text = hist.texts + 1] /\ UNCHANGED <<net, srv>>
      /\ hist' = [hist EXCEPT !.texts = @ + 1]
  BY DEF Service!Type
<1>2. /\ ServicePast(hist') /\ hist'.texts = hist.texts + 1 /\ hist'.unheard = hist.unheard
      /\ hist.texts \in Nat /\ 1..hist.texts \subseteq 1..hist'.texts
      /\ hist'.texts \in 0..hist'.texts /\ hist'.texts \notin 1..hist.texts
  BY <1>1 DEF ServiceInv, ServicePast
<1>3. ServiceUi(ui') /\ ui'.at.text = hist'.texts /\ ui'.at.submitting = ui.at.submitting
  BY <1>1, <1>2 DEF ServiceInv, ServiceUi
<1>4. ServiceFiled(srv, hist'.texts) /\ ServiceNet(net, hist'.texts)
  BY <1>2 DEF ServiceInv, ServiceFiled, ServiceNet
<1>5. TextToPost(hist'.texts, net, srv.comments)
  BY <1>2 DEF ServiceInv, ServiceFiled, TextToPost, Has
<1> QED BY <1>1, <1>2, <1>3, <1>4, <1>5 DEF ServiceInv, AllHeard

LEMMA ServicePosts ==
  ASSUME ServiceInv, Service!handleSubmit PROVE ServiceInv'
<1>1. /\ ui.at.text # 0 /\ ~ ui.at.submitting /\ srv' = srv
      /\ ui' = [ui EXCEPT !.at.submitting = TRUE]
      /\ net' = Sent(net, "comment", ui.at.text)
      /\ hist' = [hist EXCEPT !.submitted = ui.at.text]
  BY ServiceCalls DEF Service!handleSubmit, Service!CommentForm
<1>2. PICK last : Asks(net, net', last, "comment", ui.at.text)
  BY <1>1, ProperSent DEF ServiceInv, ServiceNet
<1>3. ServiceUi(ui') /\ ui'.at.text = ui.at.text /\ ui'.at.submitting
  BY <1>1 DEF ServiceInv, ServiceUi
<1>4. ServicePast(hist') /\ hist'.texts = hist.texts /\ hist'.unheard = hist.unheard
  BY <1>1 DEF ServiceInv, ServicePast
<1>5. ui.at.text \in 1..hist.texts
  BY <1>1 DEF ServiceInv, ServicePast
<1>6. ServiceNet(net', hist.texts)
  BY <1>2, <1>5 DEF ServiceInv, ServiceNet, Asks, Posts
<1>7. ASSUME ~ hist.unheard
      PROVE  AllHeard(net', TRUE, ui.at.text, srv.comments)
  <2>1. AllHeard(net, ui.at.submitting, ui.at.text, srv.comments)
    BY <1>7 DEF ServiceInv
  <2>2. \A j : ~ Posts(net, j)
    BY <1>1, <2>1 DEF AllHeard, OnePost
  <2>3. ~ Has(srv.comments, ui.at.text)
    BY <1>1, <2>1, <2>2 DEF AllHeard, TextToPost
  <2>4. \A j : Posts(net', j) => j = last
    BY <1>2, <2>2 DEF Asks, Posts
  <2>5. OnePost(net', TRUE) /\ PostsAreNew(net', srv.comments)
    BY <1>2, <2>3, <2>4 DEF Asks, OnePost, PostsAreNew
  <2> QED BY <2>1, <2>3, <2>5 DEF AllHeard, TextToPost
<1> QED BY <1>1, <1>3, <1>4, <1>6, <1>7 DEF ServiceInv

LEMMA ServicePosted ==
  ASSUME ServiceInv, Service!CommentAnswered PROVE ServiceInv'
<1>1. PICK i \in DOMAIN net :
        /\ net[i].kind = "comment" /\ net' = Settled(net, i) /\ srv' = srv
        /\ ui' = IF ~ net[i].here THEN ui
                 ELSE IF net[i].ok THEN [ui EXCEPT !.at.submitting = FALSE, !.at.text = 0]
                 ELSE [ui EXCEPT !.at.submitting = FALSE]
        /\ hist' = IF net[i].here /\ net[i].ok THEN [hist EXCEPT !.submitted = 0] ELSE hist
  BY ServiceCalls DEF Service!CommentAnswered, Service!Answered
<1>2. Settles(net, net', i) /\ Posts(net, i)
  BY <1>1, ProperSettled DEF ServiceInv, ServiceNet, Posts
<1>3. /\ ServiceUi(ui')
      /\ ui'.at.text = (IF net[i].here /\ net[i].ok THEN 0 ELSE ui.at.text)
      /\ ui'.at.submitting = (IF net[i].here THEN FALSE ELSE ui.at.submitting)
  BY <1>1 DEF ServiceInv, ServiceUi
<1>4. ServicePast(hist') /\ hist'.texts = hist.texts /\ hist'.unheard = hist.unheard
  BY <1>1 DEF ServiceInv, ServicePast
<1>5. ServiceNet(net', hist.texts)
  BY <1>2, ServiceSettle DEF ServiceInv
<1>6. ASSUME ~ hist.unheard
      PROVE  AllHeard(net', ui'.at.submitting, ui'.at.text, srv.comments)
  <2>1. AllHeard(net, ui.at.submitting, ui.at.text, srv.comments)
    BY <1>6 DEF ServiceInv
  <2>2. /\ \A j : ~ Posts(net', j)
        /\ PostsAreNew(net', srv.comments)
        /\ ~ net[i].ok => TextToPost(ui.at.text, net', srv.comments)
    BY <1>2, <2>1, ServiceSettle DEF ServiceInv, AllHeard
  <2>3. net[i].here
    BY <1>2, <2>1 DEF AllHeard, OnePost
  <2>4. TextToPost(ui'.at.text, net', srv.comments)
    BY <1>3, <2>2, <2>3 DEF TextToPost
  <2> QED BY <2>1, <2>2, <2>4 DEF AllHeard, OnePost
<1>7. ui'.at.text \in 0..hist.texts
  BY <1>3 DEF ServiceInv, ServicePast
<1> QED BY <1>1, <1>3, <1>4, <1>5, <1>6, <1>7 DEF ServiceInv

LEMMA ServiceNext ==
  ASSUME ServiceInv, [Service!Next]_(Service!vars) PROVE ServiceInv'
<1>1. CASE UNCHANGED Service!vars
  BY <1>1 DEF Service!vars, ServiceInv
<1> QED BY <1>1, ServiceBackend, ServiceOpens, ServiceOther, ServiceTyped, ServicePosts,
           ServicePosted DEF Service!Next

\* A comment is filed once, however many are written, unless its answer was lost or
\* the page was left before it came.
THEOREM CommentFiledOnce == Service!Spec => []Service!NoCommentTwice
<1>1. ServiceInv => Service!NoCommentTwice
  BY DEF ServiceInv, AllHeard, Service!NoCommentTwice
<1> QED BY <1>1, ServiceInit, ServiceNext, PTL DEF Service!Spec

-----------------------------------------------------------------------------
(* A conversation on the managers' desk.  A reply whose answer was not lost   *)
(* is in the field, on its way or filed once: the field sends nothing from    *)
(* the moment it sends a reply until the thread was read again.               *)

CONSTANTS MaxMessages, MaxReplies, MaxDeskClicks

Desk == INSTANCE ChatDesk WITH
    MaxMsgs <- MaxMessages, MaxTexts <- MaxReplies, MaxClicks <- MaxDeskClicks

LEMMA DeskCalls ==
  /\ \A n, i, d : Desk!Served(n, i, d) = Served(n, i, d)
  /\ \A n, i, d : Desk!Refused(n, i, d) = Refused(n, i, d)
  /\ \A n, i : Desk!Settled(n, i) = Settled(n, i)
  /\ \A n, k, a : Desk!Sent(n, k, a) = Sent(n, k, a)
BY DEF Desk!Served, Served, Desk!Refused, Refused, Desk!Settled, Settled,
       Desk!RemoveAt, RemoveAt, Desk!Sent, Sent, Desk!Call, Call

\* A reply on its way, and the read of the thread that follows it.
Replies(n, i) == i \in DOMAIN n /\ n[i].kind = "reply"
Holds(n, i) == Replies(n, i) \/ (i \in DOMAIN n /\ n[i].kind = "reload" /\ n[i].arg = "reply")

DeskUi(u) == /\ u = [thread |-> u.thread, reply |-> u.reply, sending |-> u.sending]
             /\ u.sending \in BOOLEAN

DeskPast(h) == /\ h = [clicks |-> h.clicks, texts |-> h.texts, off |-> h.off, lost |-> h.lost]
               /\ h.texts \in Nat

Texts == 1..MaxReplies

\* What is filed was typed, and filed once unless its answer was lost.
DeskFiled(s, lost, texts) ==
    /\ s = [thread |-> s.thread, read |-> s.read, filed |-> s.filed]
    /\ s.filed \in [Texts -> Nat]
    /\ \A t \in Texts : s.filed[t] > 0 => t \in 1..texts
    /\ \A t \in Texts \ lost : s.filed[t] <= 1

DeskNet(n, filed, lost, texts, sending) ==
    /\ Proper(n)
    /\ \A i : Replies(n, i) =>
          /\ n[i].arg \in 1..texts
          /\ ~ n[i].ok => \A t \in Texts \ lost : t = n[i].arg => filed[t] = 0
    /\ \A i, j : Holds(n, i) /\ Holds(n, j) => i = j
    /\ ~ sending => \A i : ~ Holds(n, i)

\* The text in the field is filed only by the call whose answer will wipe it.
TextToSend(reply, n, filed, lost, texts) ==
    reply # None =>
        /\ reply \in 1..texts
        /\ \A t \in Texts \ lost : t = reply =>
              filed[t] = 0 \/ \E i : Replies(n, i) /\ n[i].ok /\ n[i].arg = t

DeskInv ==
    /\ DeskUi(ui) /\ DeskPast(hist) /\ DeskFiled(srv, hist.lost, hist.texts)
    /\ DeskNet(net, srv.filed, hist.lost, hist.texts, ui.sending)
    /\ TextToSend(ui.reply, net, srv.filed, hist.lost, hist.texts)

LEMMA DeskInit ==
  ASSUME Desk!Init PROVE DeskInv
<1>1. PICK e : e = << >>
  OBVIOUS
<1>2. Proper(e) /\ DOMAIN e = {}
  BY <1>1, ProperEmpty
<1>3. net = Sent(e, "load", None)
  BY <1>1, DeskCalls DEF Desk!Init
<1>4. PICK last : Asks(e, net, last, "load", None)
  BY <1>2, <1>3, ProperSent
<1>5. Proper(net) /\ \A i : ~ Holds(net, i)
  BY <1>2, <1>4 DEF Asks, Holds, Replies
<1>6. DeskUi(ui) /\ ui.reply = None
  BY DEF Desk!Init, DeskUi
<1>7. DeskPast(hist) /\ DeskFiled(srv, hist.lost, hist.texts)
  BY DEF Desk!Init, DeskPast, DeskFiled, Texts
<1> QED BY <1>5, <1>6, <1>7 DEF DeskInv, DeskNet, TextToSend, Holds

\* An answer, if what is filed goes with it.
LEMMA DeskAnswer ==
  ASSUME DeskInv, ui' = ui, DeskPast(hist'), hist'.texts = hist.texts,
         NEW i \in DOMAIN net, net[i].stage = "sent", NEW data, NEW ok,
         Answers(net, i, net', data, ok), DeskFiled(srv', hist'.lost, hist.texts),
         hist.lost \subseteq hist'.lost,
         \A t \in Texts \ hist'.lost :
            \/ srv'.filed[t] = srv.filed[t]
            \/ Replies(net, i) /\ ok = TRUE /\ net[i].arg = t
  PROVE  DeskInv'
<1>1. /\ Proper(net') /\ DOMAIN net' = DOMAIN net
      /\ \A j \in DOMAIN net \ {i} : net'[j] = net[j]
      /\ \A j \in DOMAIN net : net'[j].kind = net[j].kind /\ net'[j].arg = net[j].arg
      /\ net'[i].ok = ok
  BY DEF Answers
<1>2. \A j : (Replies(net', j) <=> Replies(net, j)) /\ (Holds(net', j) <=> Holds(net, j))
  BY <1>1 DEF Replies, Holds
<1>3. ~ net[i].ok
  BY DEF DeskInv, DeskNet, Proper, IsCall
<1>4. DeskNet(net', srv'.filed, hist'.lost, hist.texts, ui.sending)
  <2>1. ASSUME NEW j, Replies(net', j), ~ net'[j].ok,
               NEW t \in Texts \ hist'.lost, t = net'[j].arg
        PROVE  srv'.filed[t] = 0
    <3>1. Replies(net, j) /\ net[j].arg = t /\ ~ net[j].ok
      BY <1>1, <1>2, <1>3, <2>1 DEF Replies
    <3>2. srv.filed[t] = 0
      BY <3>1 DEF DeskInv, DeskNet
    <3>3. CASE Replies(net, i) /\ ok = TRUE /\ net[i].arg = t
      <4>1. j = i
        BY <3>1, <3>3 DEF DeskInv, DeskNet, Holds
      <4> QED BY <1>1, <2>1, <3>3, <4>1
    <3> QED BY <3>2, <3>3
  <2>2. \A j : Replies(net', j) => net'[j].arg \in 1..hist.texts
    BY <1>1, <1>2 DEF DeskInv, DeskNet, Replies
  <2>3. /\ \A j, k : Holds(net', j) /\ Holds(net', k) => j = k
        /\ ~ ui.sending => \A j : ~ Holds(net', j)
    BY <1>2 DEF DeskInv, DeskNet
  <2> QED BY <1>1, <2>1, <2>2, <2>3 DEF DeskNet
<1>5. TextToSend(ui.reply, net', srv'.filed, hist'.lost, hist.texts)
  <2>1. ASSUME ui.reply # None, NEW t \in Texts \ hist'.lost, t = ui.reply, srv'.filed[t] # 0
        PROVE  \E j : Replies(net', j) /\ net'[j].ok /\ net'[j].arg = t
    <3>1. CASE srv'.filed[t] = srv.filed[t]
      <4>1. PICK j : Replies(net, j) /\ net[j].ok /\ net[j].arg = t
        BY <2>1, <3>1 DEF DeskInv, TextToSend
      <4> QED BY <1>1, <1>2, <1>3, <4>1 DEF Replies
    <3>2. CASE Replies(net, i) /\ ok = TRUE /\ net[i].arg = t
      BY <1>1, <1>2, <3>2
    <3> QED BY <2>1, <3>1, <3>2
  <2> QED BY <2>1 DEF DeskInv, TextToSend
<1> QED BY <1>4, <1>5 DEF DeskInv

LEMMA DeskBackend ==
  ASSUME DeskInv, Desk!Backend PROVE DeskInv'
<1>1. ui' = ui /\ DeskPast(hist') /\ hist'.texts = hist.texts /\ hist.lost \subseteq hist'.lost
  <2>1. PICK b, l : \/ hist' = hist
                    \/ hist' = [hist EXCEPT !.off = b]
                    \/ hist' = [hist EXCEPT !.off = b, !.lost = @ \cup l]
    BY DEF Desk!Backend, Desk!Get, Desk!AddMessage, Desk!AdminUpdateStatus, Desk!ServeRefusal
  <2>2. PICK lost : lost = hist.lost \cup l
    OBVIOUS
  <2>3. \/ hist' = hist
        \/ hist' = [hist EXCEPT !.off = b]
        \/ hist' = [hist EXCEPT !.off = b, !.lost = lost]
    BY <2>1, <2>2
  <2>4. DeskPast(hist)
    BY DEF DeskInv
  <2>5. /\ DeskPast(hist') /\ hist'.texts = hist.texts
        /\ hist'.lost = hist.lost \/ hist'.lost = lost
    BY ONLY <2>3, <2>4 DEF DeskPast
  <2> QED BY <2>2, <2>5 DEF Desk!Backend
<1>2. Proper(net) /\ DeskFiled(srv, hist.lost, hist.texts) /\ DeskPast(hist)
      /\ DeskNet(net, srv.filed, hist.lost, hist.texts, ui.sending)
  BY DEF DeskInv, DeskNet
<1>3. ASSUME NEW i \in DOMAIN net, net[i].stage = "sent", NEW data, NEW thread, NEW read,
             net' = Served(net, i, data) \/ net' = Refused(net, i, None),
             srv' = [srv EXCEPT !.thread = thread, !.read = read], hist'.lost = hist.lost
      PROVE  DeskInv'
  <2>1. srv' = [thread |-> thread, read |-> read, filed |-> srv.filed]
    BY <1>2, <1>3 DEF DeskFiled
  <2>2. DeskFiled(srv', hist'.lost, hist.texts) /\ srv'.filed = srv.filed
    BY <1>2, <1>3, <2>1 DEF DeskFiled
  <2>3. Answers(net, i, net', data, TRUE) \/ Answers(net, i, net', None, FALSE)
    BY <1>2, <1>3, ProperAnswered
  <2> QED BY <1>1, <1>3, <2>2, <2>3, DeskAnswer
<1>4. CASE Desk!Get
  <2>1. PICK i \in DOMAIN net :
          /\ net[i].stage = "sent" /\ srv' = [srv EXCEPT !.read = srv.thread.msgs]
          /\ \/ net' = Served(net, i, srv.thread) /\ \E b : hist' = [hist EXCEPT !.off = b]
             \/ net' = Refused(net, i, None) /\ hist' = [hist EXCEPT !.off = TRUE]
    BY <1>4, DeskCalls DEF Desk!Get, Desk!MarkedRead
  <2>2. hist'.lost = hist.lost
    BY <1>2, <2>1 DEF DeskPast
  <2>3. srv' = [srv EXCEPT !.thread = srv.thread, !.read = srv.thread.msgs]
    BY <1>2, <2>1 DEF DeskFiled
  <2>4. CASE net' = Served(net, i, srv.thread)
    BY <1>3, <2>1, <2>2, <2>3, <2>4
  <2>5. CASE net' = Refused(net, i, None)
    BY <1>3, <2>1, <2>2, <2>3, <2>5
  <2> QED BY <2>1, <2>4, <2>5
<1>5. CASE Desk!AdminUpdateStatus \/ Desk!ServeRefusal
  <2>1. PICK i, b, thread :
          /\ i \in DOMAIN net
          /\ net[i].stage = "sent"
          /\ srv' = srv \/ srv' = [srv EXCEPT !.thread = thread]
          /\ net' = Served(net, i, None) \/ net' = Refused(net, i, None)
          /\ hist' = hist \/ hist' = [hist EXCEPT !.off = b]
    <3>1. CASE Desk!ServeRefusal
      BY <3>1, DeskCalls DEF Desk!ServeRefusal
    <3>2. CASE Desk!AdminUpdateStatus
      <4>1. PICK i \in DOMAIN net :
              /\ net[i].stage = "sent" /\ srv' = [srv EXCEPT !.thread.status = net[i].arg]
              /\ net' = Served(net, i, None) \/ net' = Refused(net, i, None)
              /\ hist' = hist \/ hist' = [hist EXCEPT !.off = TRUE]
        BY <3>2, DeskCalls DEF Desk!AdminUpdateStatus, Desk!Waiting
      <4>2. PICK thread : thread = [srv.thread EXCEPT !.status = net[i].arg]
        OBVIOUS
      <4>3. srv' = [srv EXCEPT !.thread = thread]
        BY <4>1, <4>2
      <4> QED BY <4>1, <4>3
    <3> QED BY <1>5, <3>1, <3>2
  <2>2. hist'.lost = hist.lost
    BY <1>2, <2>1 DEF DeskPast
  <2>3. \E th : srv' = [srv EXCEPT !.thread = th, !.read = srv.read]
    <3>1. CASE srv' = srv
      <4>1. srv' = [srv EXCEPT !.thread = srv.thread, !.read = srv.read]
        BY <1>2, <3>1 DEF DeskFiled
      <4> QED BY <4>1
    <3>2. CASE srv' = [srv EXCEPT !.thread = thread]
      <4>1. srv' = [srv EXCEPT !.thread = thread, !.read = srv.read]
        BY <1>2, <3>2 DEF DeskFiled
      <4> QED BY <4>1
    <3> QED BY <2>1, <3>1, <3>2
  <2>4. PICK th : srv' = [srv EXCEPT !.thread = th, !.read = srv.read]
    BY <2>3
  <2>5. CASE net' = Served(net, i, None)
    BY <1>3, <2>1, <2>2, <2>4, <2>5
  <2>6. CASE net' = Refused(net, i, None)
    BY <1>3, <2>1, <2>2, <2>4, <2>6
  <2> QED BY <2>1, <2>5, <2>6
<1>6. CASE Desk!AddMessage
  <2>1. PICK i, a :
          /\ i \in DOMAIN net
          /\ net[i].kind = "reply" /\ net[i].stage = "sent" /\ net[i].arg = a
          /\ srv' = Desk!MarkedRead([srv EXCEPT !.thread.replies = @ \cup {a}, !.filed[a] = @ + 1])
          /\ \/ net' = Served(net, i, None) /\ hist' = hist
             \/ /\ net' = Refused(net, i, None)
                /\ hist' = [hist EXCEPT !.off = TRUE, !.lost = @ \cup {a}]
    BY <1>6, DeskCalls DEF Desk!AddMessage, Desk!Waiting
  <2>2. Replies(net, i) /\ ~ net[i].ok /\ a \in 1..hist.texts
        /\ \A t \in Texts \ hist.lost : t = a => srv.filed[t] = 0
    BY <1>2, <2>1 DEF DeskNet, Replies, Proper, IsCall
  <2>3. PICK filed, replies : /\ filed = [srv.filed EXCEPT ![a] = @ + 1]
                              /\ replies = srv.thread.replies \cup {a}
    OBVIOUS
  <2>4. /\ filed \in [Texts -> Nat]
        /\ \A t \in Texts : filed[t] = IF t = a THEN srv.filed[t] + 1 ELSE srv.filed[t]
    <3>1. /\ DOMAIN filed = Texts /\ filed = [t \in Texts |-> filed[t]]
          /\ \A t \in Texts : filed[t] = IF t = a THEN srv.filed[t] + 1 ELSE srv.filed[t]
      BY <1>2, <2>3 DEF DeskFiled
    <3>2. \A t \in Texts : filed[t] \in Nat
      BY <1>2, <3>1 DEF DeskFiled
    <3> QED BY <3>1, <3>2
  <2>5. PICK thread : thread = [srv.thread EXCEPT !.replies = replies]
    OBVIOUS
  <2>6. PICK row : row = [srv EXCEPT !.thread = thread, !.filed = filed]
    OBVIOUS
  <2>7. srv' = Desk!MarkedRead(row) /\ row = [thread |-> thread, read |-> srv.read, filed |-> filed]
    BY <1>2, <2>1, <2>3, <2>5, <2>6 DEF DeskFiled
  <2>8. srv' = [thread |-> thread, read |-> thread.msgs, filed |-> filed]
    BY <2>7 DEF Desk!MarkedRead
  <2>9. \/ net' = Served(net, i, None) /\ hist'.lost = hist.lost
        \/ net' = Refused(net, i, None) /\ hist'.lost = hist.lost \cup {a}
    <3>1. PICK lost : lost = hist.lost \cup {a}
      OBVIOUS
    <3>2. \/ net' = Served(net, i, None) /\ hist' = hist
          \/ net' = Refused(net, i, None) /\ hist' = [hist EXCEPT !.off = TRUE, !.lost = lost]
      BY <2>1, <3>1
    <3>3. hist' = [hist EXCEPT !.off = TRUE, !.lost = lost] => hist'.lost = lost
      BY <1>2 DEF DeskPast
    <3> QED BY <3>1, <3>2, <3>3
  <2>10. DeskFiled(srv', hist'.lost, hist.texts)
    <3>1. \A t \in Texts : filed[t] > 0 => t \in 1..hist.texts
      BY <1>2, <2>2, <2>4 DEF DeskFiled
    <3>2. \A t \in Texts \ hist'.lost : filed[t] <= 1
      <4>1. \A t \in Texts \ hist.lost : srv.filed[t] <= 1 /\ srv.filed[t] \in Nat
        BY <1>2 DEF DeskFiled
      <4>2. \A t \in Texts \ hist'.lost : t \in Texts \ hist.lost
        BY <1>1
      <4> QED BY <2>2, <2>4, <4>1, <4>2
    <3> QED BY <2>4, <2>8, <3>1, <3>2 DEF DeskFiled
  <2>11. CASE net' = Served(net, i, None)
    <3>1. Answers(net, i, net', None, TRUE)
      BY <1>2, <2>1, <2>11, ProperAnswered
    <3>2. \A t \in Texts \ hist'.lost :
             srv'.filed[t] = srv.filed[t] \/ (Replies(net, i) /\ TRUE = TRUE /\ net[i].arg = t)
      BY <2>1, <2>2, <2>4, <2>8
    <3> QED BY <1>1, <2>1, <2>10, <3>1, <3>2, DeskAnswer
  <2>12. CASE net' = Refused(net, i, None) /\ hist'.lost = hist.lost \cup {a}
    <3>1. Answers(net, i, net', None, FALSE)
      BY <1>2, <2>1, <2>12, ProperAnswered
    <3>2. \A t \in Texts \ hist'.lost : srv'.filed[t] = srv.filed[t]
      BY <2>4, <2>8, <2>12
    <3> QED BY <1>1, <2>1, <2>10, <3>1, <3>2, DeskAnswer
  <2> QED BY <2>9, <2>11, <2>12
<1> QED BY <1>4, <1>5, <1>6 DEF Desk!Backend

LEMMA DeskWrite ==
  ASSUME DeskInv, Desk!Write PROVE DeskInv'
<1>1. PICK m : srv' = [srv EXCEPT !.thread.msgs = @ \cup {m}] /\ UNCHANGED <<ui, net, hist>>
  BY DEF Desk!Write
<1>2. PICK msgs : msgs = srv.thread.msgs \cup {m}
  OBVIOUS
<1>3. PICK thread : thread = [srv.thread EXCEPT !.msgs = msgs]
  OBVIOUS
<1>4. srv' = [srv EXCEPT !.thread = thread]
  BY <1>1, <1>2, <1>3
<1>5. srv' = [thread |-> thread, read |-> srv.read, filed |-> srv.filed]
  BY <1>4 DEF DeskInv, DeskFiled
<1>6. DeskFiled(srv', hist.lost, hist.texts) /\ srv'.filed = srv.filed
  BY <1>5 DEF DeskInv, DeskFiled
<1> QED BY <1>1, <1>6 DEF DeskInv

LEMMA DeskSettle ==
  ASSUME NEW n, NEW m, NEW i, Settles(n, m, i), NEW filed, NEW lost, NEW texts, NEW sending,
         NEW reply, DeskNet(n, filed, lost, texts, sending),
         TextToSend(reply, n, filed, lost, texts),
         reply # None => ~ (Replies(n, i) /\ n[i].ok)
  PROVE  /\ DeskNet(m, filed, lost, texts, sending)
         /\ TextToSend(reply, m, filed, lost, texts)
         /\ Holds(n, i) => \A j : ~ Holds(m, j)
<1>1. /\ \A j : Replies(m, j) => Replies(n, From(i, j)) /\ m[j] = n[From(i, j)] /\ From(i, j) # i
      /\ \A j : Holds(m, j) => Holds(n, From(i, j)) /\ From(i, j) # i
      /\ \A j, k : Holds(m, j) /\ Holds(m, k) /\ From(i, j) = From(i, k) => j = k
      /\ \A k : Replies(n, k) /\ k # i => \E j : Replies(m, j) /\ m[j] = n[k]
  BY DEF Settles, Replies, Holds
<1>2. Proper(m)
  BY DEF Settles
<1>3. DeskNet(m, filed, lost, texts, sending)
  BY <1>1, <1>2 DEF DeskNet
<1>4. TextToSend(reply, m, filed, lost, texts)
  BY <1>1 DEF TextToSend
<1>5. Holds(n, i) => \A j : ~ Holds(m, j)
  BY <1>1 DEF DeskNet
<1> QED BY <1>3, <1>4, <1>5

LEMMA DeskAsk ==
  ASSUME NEW n, NEW m, NEW last, NEW kind, NEW arg, Asks(n, m, last, kind, arg), kind # "reply",
         NEW filed, NEW lost, NEW texts, NEW sending, NEW reply,
         DeskNet(n, filed, lost, texts, sending), TextToSend(reply, n, filed, lost, texts),
         kind = "reload" /\ arg = "reply" => sending /\ \A j : ~ Holds(n, j)
  PROVE  DeskNet(m, filed, lost, texts, sending) /\ TextToSend(reply, m, filed, lost, texts)
<1>1. /\ \A j : (Replies(m, j) <=> Replies(n, j)) /\ (Replies(n, j) => m[j] = n[j])
      /\ \A j : Holds(m, j) <=> Holds(n, j) \/ (j = last /\ kind = "reload" /\ arg = "reply")
  BY DEF Asks, Replies, Holds
<1>2. DeskNet(m, filed, lost, texts, sending)
  BY <1>1 DEF DeskNet, Asks
<1>3. TextToSend(reply, m, filed, lost, texts)
  BY <1>1 DEF TextToSend
<1> QED BY <1>2, <1>3

LEMMA DeskSends ==
  ASSUME DeskInv, Desk!Poll \/ Desk!handleStatusToggle PROVE DeskInv'
<1>1. PICK kind, arg :
        kind \in {"load", "status"} /\ net' = Sent(net, kind, arg) /\ srv' = srv /\ ui' = ui /\ Desk!Click
  BY DeskCalls DEF Desk!Poll, Desk!handleStatusToggle
<1>2. PICK last : Asks(net, net', last, kind, arg)
  BY <1>1, ProperSent DEF DeskInv, DeskNet
<1>3. DeskPast(hist') /\ hist'.texts = hist.texts /\ hist'.lost = hist.lost
  BY <1>1 DEF Desk!Click, DeskInv, DeskPast
<1>4. /\ DeskNet(net', srv.filed, hist.lost, hist.texts, ui.sending)
      /\ TextToSend(ui.reply, net', srv.filed, hist.lost, hist.texts)
  BY <1>1, <1>2, DeskAsk DEF DeskInv
<1> QED BY <1>1, <1>3, <1>4 DEF DeskInv

LEMMA DeskLoaded ==
  ASSUME DeskInv, Desk!LoadAnswered PROVE DeskInv'
<1>1. PICK i \in DOMAIN net :
        /\ net[i].kind # "reply" /\ net' = Settled(net, i) /\ UNCHANGED <<srv, hist>>
        /\ LET seen == IF net[i].ok THEN [ui EXCEPT !.thread = net[i].data] ELSE ui
           IN ui' = IF net[i].kind = "reload" /\ net[i].arg = "reply"
                    THEN [seen EXCEPT !.sending = FALSE] ELSE seen
  BY DeskCalls DEF Desk!LoadAnswered, Desk!Answered
<1>2. Settles(net, net', i)
  BY <1>1, ProperSettled DEF DeskInv, DeskNet
<1>3. /\ DeskUi(ui') /\ ui'.reply = ui.reply
      /\ ui'.sending = IF net[i].kind = "reload" /\ net[i].arg = "reply" THEN FALSE ELSE ui.sending
  BY <1>1 DEF DeskInv, DeskUi
<1>4. /\ DeskNet(net', srv.filed, hist.lost, hist.texts, ui.sending)
      /\ TextToSend(ui.reply, net', srv.filed, hist.lost, hist.texts)
      /\ Holds(net, i) => \A j : ~ Holds(net', j)
  BY <1>1, <1>2, DeskSettle DEF DeskInv, Replies
<1>5. net[i].kind = "reload" /\ net[i].arg = "reply" => Holds(net, i)
  BY DEF Holds
<1> QED BY <1>1, <1>3, <1>4, <1>5 DEF DeskInv, DeskNet

LEMMA DeskTyped ==
  ASSUME DeskInv, Desk!Type PROVE DeskInv'
<1>1. /\ ui' = [ui EXCEPT !.reply = hist.texts + 1] /\ UNCHANGED <<net, srv>>
      /\ hist' = [hist EXCEPT !.texts = @ + 1]
  BY DEF Desk!Type
<1>2. /\ hist'.texts = hist.texts + 1 /\ DeskPast(hist') /\ hist.texts \in Nat
      /\ hist'.lost = hist.lost
      /\ 1..hist.texts \subseteq 1..hist'.texts /\ hist'.texts \in 1..hist'.texts
      /\ hist'.texts \notin 1..hist.texts
  BY <1>1 DEF DeskInv, DeskPast
<1>3. DeskUi(ui') /\ ui'.reply = hist'.texts /\ ui'.sending = ui.sending
  BY <1>1, <1>2 DEF DeskInv, DeskUi
<1>4. /\ DeskFiled(srv, hist.lost, hist'.texts)
      /\ DeskNet(net, srv.filed, hist.lost, hist'.texts, ui.sending)
  BY <1>2 DEF DeskInv, DeskFiled, DeskNet
<1>5. TextToSend(hist'.texts, net, srv.filed, hist.lost, hist'.texts)
  BY <1>2 DEF DeskInv, DeskFiled, TextToSend
<1> QED BY <1>1, <1>2, <1>3, <1>4, <1>5 DEF DeskInv

LEMMA DeskReplies ==
  ASSUME DeskInv, Desk!handleReply PROVE DeskInv'
<1>1. /\ ui.reply # None /\ ~ ui.sending /\ ui' = [ui EXCEPT !.sending = TRUE]
      /\ net' = Sent(net, "reply", ui.reply) /\ srv' = srv /\ Desk!Click
  BY DeskCalls DEF Desk!handleReply, Desk!MayReply
<1>2. PICK last : Asks(net, net', last, "reply", ui.reply)
  BY <1>1, ProperSent DEF DeskInv, DeskNet
<1>3. DeskUi(ui') /\ ui'.reply = ui.reply /\ ui'.sending
  BY <1>1 DEF DeskInv, DeskUi
<1>4. DeskPast(hist') /\ hist'.texts = hist.texts /\ hist'.lost = hist.lost
  BY <1>1 DEF Desk!Click, DeskInv, DeskPast
<1>5. \A j : ~ Holds(net, j)
  BY <1>1 DEF DeskInv, DeskNet
<1>6. \A j : Holds(net', j) \/ Replies(net', j) => j = last
  BY <1>2, <1>5 DEF Asks, Holds, Replies
<1>7. /\ ui.reply \in 1..hist.texts
      /\ \A t \in Texts \ hist.lost : t = ui.reply => srv.filed[t] = 0
  BY <1>1, <1>5 DEF DeskInv, TextToSend, Holds
<1>8. DeskNet(net', srv.filed, hist.lost, hist.texts, TRUE)
  BY <1>2, <1>6, <1>7 DEF DeskNet, Asks
<1>9. TextToSend(ui.reply, net', srv.filed, hist.lost, hist.texts)
  BY <1>7 DEF TextToSend
<1> QED BY <1>1, <1>3, <1>4, <1>8, <1>9 DEF DeskInv, DeskNet

LEMMA DeskReplied ==
  ASSUME DeskInv, Desk!ReplyAnswered PROVE DeskInv'
<1>1. PICK i \in DOMAIN net :
        /\ net[i].kind = "reply" /\ UNCHANGED <<srv, hist>>
        /\ ui' = IF net[i].ok THEN [ui EXCEPT !.reply = None] ELSE [ui EXCEPT !.sending = FALSE]
        /\ net' = IF net[i].ok THEN Sent(Settled(net, i), "reload", "reply") ELSE Settled(net, i)
  BY DeskCalls DEF Desk!ReplyAnswered, Desk!Answered
<1>2. PICK m : m = Settled(net, i)
  OBVIOUS
<1>3. Settles(net, m, i) /\ Proper(m)
  BY <1>2, ProperSettled DEF DeskInv, DeskNet, Settles
<1>4. Replies(net, i) /\ Holds(net, i) /\ ui.sending
  BY <1>1 DEF Replies, Holds, DeskInv, DeskNet
<1>5. CASE net[i].ok
  <2>1. DeskUi(ui') /\ ui'.reply = None /\ ui'.sending = ui.sending
    BY <1>1, <1>5 DEF DeskInv, DeskUi
  <2>2. TextToSend(None, net, srv.filed, hist.lost, hist.texts)
    BY DEF TextToSend
  <2>3. /\ DeskNet(m, srv.filed, hist.lost, hist.texts, ui.sending)
        /\ TextToSend(None, m, srv.filed, hist.lost, hist.texts)
        /\ \A j : ~ Holds(m, j)
    BY <1>3, <1>4, <2>2, DeskSettle DEF DeskInv
  <2>4. PICK last : Asks(m, net', last, "reload", "reply")
    BY <1>1, <1>2, <1>3, <1>5, ProperSent
  <2>5. /\ DeskNet(net', srv.filed, hist.lost, hist.texts, ui.sending)
        /\ TextToSend(None, net', srv.filed, hist.lost, hist.texts)
    BY <1>4, <2>3, <2>4, DeskAsk
  <2> QED BY <1>1, <2>1, <2>5 DEF DeskInv
<1>6. CASE ~ net[i].ok
  <2>1. DeskUi(ui') /\ ui'.reply = ui.reply /\ ui'.sending = FALSE /\ net' = m
    BY <1>1, <1>2, <1>6 DEF DeskInv, DeskUi
  <2>2. /\ DeskNet(m, srv.filed, hist.lost, hist.texts, ui.sending)
        /\ TextToSend(ui.reply, m, srv.filed, hist.lost, hist.texts)
        /\ \A j : ~ Holds(m, j)
    BY <1>3, <1>4, <1>6, DeskSettle DEF DeskInv
  <2> QED BY <1>1, <2>1, <2>2 DEF DeskInv, DeskNet
<1> QED BY <1>5, <1>6

LEMMA DeskStatus ==
  ASSUME DeskInv, Desk!StatusAnswered PROVE DeskInv'
<1>1. PICK i \in DOMAIN net :
        /\ net[i].kind = "status" /\ UNCHANGED <<ui, srv, hist>>
        /\ net' = Settled(net, i) \/ net' = Sent(Settled(net, i), "reload", "status")
  BY DeskCalls DEF Desk!StatusAnswered, Desk!Answered
<1>2. PICK m : m = Settled(net, i)
  OBVIOUS
<1>3. Settles(net, m, i) /\ Proper(m)
  BY <1>2, ProperSettled DEF DeskInv, DeskNet, Settles
<1>4. /\ DeskNet(m, srv.filed, hist.lost, hist.texts, ui.sending)
      /\ TextToSend(ui.reply, m, srv.filed, hist.lost, hist.texts)
  BY <1>1, <1>3, DeskSettle DEF DeskInv, Replies
<1>5. CASE net' = m
  BY <1>1, <1>4, <1>5 DEF DeskInv
<1>6. CASE net' = Sent(m, "reload", "status")
  <2>1. PICK last : Asks(m, net', last, "reload", "status")
    BY <1>3, <1>6, ProperSent
  <2>2. /\ DeskNet(net', srv.filed, hist.lost, hist.texts, ui.sending)
        /\ TextToSend(ui.reply, net', srv.filed, hist.lost, hist.texts)
    BY <1>4, <2>1, DeskAsk
  <2> QED BY <1>1, <2>2 DEF DeskInv
<1> QED BY <1>1, <1>2, <1>5, <1>6

LEMMA DeskNext ==
  ASSUME DeskInv, [Desk!Next]_(Desk!vars) PROVE DeskInv'
<1>1. CASE UNCHANGED Desk!vars
  BY <1>1 DEF Desk!vars, DeskInv
<1> QED BY <1>1, DeskBackend, DeskWrite, DeskSends, DeskLoaded, DeskTyped, DeskReplies,
           DeskReplied, DeskStatus DEF Desk!Next

\* A reply typed once is filed once, however often Enter is pressed, unless its
\* answer was lost.
THEOREM ReplyFiledOnce == Desk!Spec => []Desk!NoReplyTwice
<1>1. DeskInv => Desk!NoReplyTwice
  BY DEF DeskInv, DeskFiled, Texts, Desk!NoReplyTwice
<1> QED BY <1>1, DeskInit, DeskNext, PTL DEF Desk!Spec

-----------------------------------------------------------------------------
(* A provider's listings.  Every form that opens is numbered (its mount), and *)
(* the call that makes a listing carries the number: while the form of a new  *)
(* listing is open its call is on its way at most once, and what it has made  *)
(* is known to the answer that will close it.                                 *)

CONSTANTS MaxListings, MaxFields, MaxProviderClicks

Provider == INSTANCE ProviderListings WITH
    MaxTexts <- MaxFields, MaxClicks <- MaxProviderClicks

LEMMA ProviderCalls ==
  /\ \A n, i, d : Provider!Served(n, i, d) = Served(n, i, d)
  /\ \A n, i, d : Provider!Refused(n, i, d) = Refused(n, i, d)
  /\ \A n, i : Provider!Settled(n, i) = Settled(n, i)
  /\ \A n, k, a : Provider!Sent(n, k, a) = Sent(n, k, a)
BY DEF Provider!Served, Served, Provider!Refused, Refused, Provider!Settled, Settled,
       Provider!RemoveAt, RemoveAt, Provider!Sent, Sent, Provider!Call, Call

Makes(n, i) == i \in DOMAIN n /\ n[i].kind = "create"
Saves(n, i) == i \in DOMAIN n /\ n[i].kind = "save"

ProviderUi(u) ==
    /\ u = [rows |-> u.rows, form |-> u.form, mount |-> u.mount, fields |-> u.fields,
            initial |-> u.initial, base |-> u.base, saving |-> u.saving]
    /\ u.saving \in BOOLEAN /\ u.mount \in Nat

ProviderPast(h, mount) ==
    /\ h = [texts |-> h.texts, clicks |-> h.clicks, rows |-> h.rows, made |-> h.made,
            twice |-> h.twice, off |-> h.off]
    /\ h.made \subseteq 0..mount /\ h.twice = FALSE

\* No two calls make the listing of one form, and none that did not succeed has.
ProviderNet(n, made, mount) ==
    /\ Proper(n)
    /\ \A i : Makes(n, i) => n[i].arg.mount \in 0..mount
    /\ \A i : Makes(n, i) /\ ~ n[i].ok => n[i].arg.mount \notin made
    /\ \A i, j : Makes(n, i) /\ Makes(n, j) /\ n[i].arg.mount = n[j].arg.mount => i = j
    /\ \A i : Saves(n, i) => n[i].arg.mount \in 0..mount

\* The form of a new listing: what it has made is about to close it, and it has
\* no call on its way while its button is on.
NewForm(form, mount, saving, n, made) ==
    form = 0 =>
        /\ mount \in made => \E i : Makes(n, i) /\ n[i].ok /\ n[i].arg.mount = mount
        /\ ~ saving => \A i : Makes(n, i) => n[i].arg.mount # mount
        /\ \A i : Saves(n, i) => n[i].arg.mount # mount

ProviderInv ==
    /\ ProviderUi(ui) /\ ProviderPast(hist, ui.mount)
    /\ ProviderNet(net, hist.made, ui.mount)
    /\ NewForm(ui.form, ui.mount, ui.saving, net, hist.made)

LEMMA ProviderInit ==
  ASSUME None # 0, Provider!Init PROVE ProviderInv
<1>1. Proper(net) /\ DOMAIN net = {}
  BY ProperEmpty DEF Provider!Init
<1>2. ProviderUi(ui) /\ ui.mount = 0 /\ ui.form = None
  BY DEF Provider!Init, ProviderUi
<1>3. ProviderPast(hist, ui.mount)
  BY DEF Provider!Init, ProviderPast
<1> QED BY <1>1, <1>2, <1>3 DEF ProviderInv, ProviderNet, NewForm, Makes, Saves

\* An answer, if what was made goes with it.
LEMMA ProviderAnswer ==
  ASSUME ProviderInv, ui' = ui, NEW i \in DOMAIN net, Makes(net, i) => ~ net[i].ok,
         NEW data, NEW ok, Answers(net, i, net', data, ok), ProviderPast(hist', ui.mount),
         \/ hist'.made = hist.made
         \/ Makes(net, i) /\ ok = TRUE /\ hist'.made = hist.made \cup {net[i].arg.mount}
  PROVE  ProviderInv'
<1>1. /\ Proper(net') /\ DOMAIN net' = DOMAIN net
      /\ \A j \in DOMAIN net \ {i} : net'[j] = net[j]
      /\ \A j \in DOMAIN net : net'[j].kind = net[j].kind /\ net'[j].arg = net[j].arg
      /\ net'[i].ok = ok
  BY DEF Answers
<1>2. \A j : (Makes(net', j) <=> Makes(net, j)) /\ (Saves(net', j) <=> Saves(net, j))
  BY <1>1 DEF Makes, Saves
<1>4. ASSUME NEW j, Makes(net', j), ~ net'[j].ok
      PROVE  net'[j].arg.mount \notin hist'.made
  <2>1. /\ Makes(net, j) /\ net'[j].arg = net[j].arg /\ net[j].arg.mount \notin hist.made
    BY <1>1, <1>2, <1>4 DEF ProviderInv, ProviderNet, Makes
  <2>2. CASE Makes(net, i) /\ ok = TRUE
    <3>1. j # i
      BY <1>1, <1>4, <2>2
    <3>2. net[j].arg.mount # net[i].arg.mount
      BY <2>1, <2>2, <3>1 DEF ProviderInv, ProviderNet
    <3> QED BY <2>1, <3>2
  <2> QED BY <2>1, <2>2
<1>5. ProviderNet(net', hist'.made, ui.mount)
  <2>1. /\ \A j : Makes(net', j) => net'[j].arg.mount \in 0..ui.mount
        /\ \A j, k : Makes(net', j) /\ Makes(net', k) /\ net'[j].arg.mount = net'[k].arg.mount => j = k
        /\ \A j : Saves(net', j) => net'[j].arg.mount \in 0..ui.mount
    BY <1>1, <1>2 DEF ProviderInv, ProviderNet, Makes, Saves
  <2> QED BY <1>1, <1>4, <2>1 DEF ProviderNet
<1>6. NewForm(ui.form, ui.mount, ui.saving, net', hist'.made)
  <2>1. ASSUME ui.form = 0, ui.mount \in hist'.made
        PROVE  \E j : Makes(net', j) /\ net'[j].ok /\ net'[j].arg.mount = ui.mount
    <3>1. CASE ui.mount \in hist.made
      <4>1. PICK j : Makes(net, j) /\ net[j].ok /\ net[j].arg.mount = ui.mount
        BY <2>1, <3>1 DEF ProviderInv, NewForm
      <4> QED BY <1>1, <1>2, <4>1 DEF Makes
    <3>2. CASE ui.mount \notin hist.made
      BY <1>1, <1>2, <2>1, <3>2
    <3> QED BY <3>1, <3>2
  <2>2. /\ ui.form = 0 /\ ~ ui.saving => \A j : Makes(net', j) => net'[j].arg.mount # ui.mount
        /\ ui.form = 0 => \A j : Saves(net', j) => net'[j].arg.mount # ui.mount
    BY <1>1, <1>2 DEF ProviderInv, NewForm, Makes, Saves
  <2> QED BY <2>1, <2>2 DEF NewForm
<1> QED BY <1>5, <1>6 DEF ProviderInv

LEMMA ProviderBackend ==
  ASSUME ProviderInv, Provider!Backend PROVE ProviderInv'
<1>1. ui' = ui
  BY DEF Provider!Backend
<1>2. Proper(net) /\ ProviderPast(hist, ui.mount) /\ ProviderNet(net, hist.made, ui.mount)
  BY DEF ProviderInv, ProviderNet
<1>3. CASE \/ Provider!MyListings \/ Provider!Update \/ Provider!Delete
           \/ Provider!ServeRefusal \/ Provider!AnswerLost
  <2>1. PICK i, data :
          /\ i \in DOMAIN net
          /\ net[i].stage = "sent" \/ net[i].kind # "create"
          /\ net' = Served(net, i, data) \/ net' = Refused(net, i, None)
          /\ ProviderPast(hist', ui.mount) /\ hist'.made = hist.made
    <3>1. CASE Provider!MyListings
      BY <1>2, <3>1, ProviderCalls DEF Provider!MyListings, Provider!Waiting, ProviderPast
    <3>2. CASE Provider!Update
      <4>1. PICK i, row :
              /\ i \in DOMAIN net
              /\ net[i].stage = "sent" /\ net' = Served(net, i, row)
              /\ \E b, rows : hist' = [hist EXCEPT !.off = b, !.rows = rows]
        BY <3>2, ProviderCalls DEF Provider!Update, Provider!Waiting
      <4> QED BY <1>2, <4>1 DEF ProviderPast
    <3>3. CASE Provider!Delete
      <4>1. PICK i \in DOMAIN net :
              /\ net[i].stage = "sent" /\ net' = Served(net, i, None)
              /\ \E b, rows : hist' = [hist EXCEPT !.rows = rows, !.off = b]
        BY <3>3, ProviderCalls DEF Provider!Delete, Provider!Waiting
      <4> QED BY <1>2, <4>1 DEF ProviderPast
    <3>4. CASE Provider!ServeRefusal
      BY <1>2, <3>4, ProviderCalls DEF Provider!ServeRefusal, ProviderPast
    <3>5. CASE Provider!AnswerLost
      <4>1. PICK i \in DOMAIN net :
              /\ net[i].kind # "create" /\ net' = Refused(net, i, None)
              /\ hist' = [hist EXCEPT !.off = TRUE]
        BY <3>5, ProviderCalls DEF Provider!AnswerLost, Provider!Coming
      <4> QED BY <1>2, <4>1 DEF ProviderPast
    <3> QED BY <1>3, <3>1, <3>2, <3>3, <3>4, <3>5
  <2>4. Makes(net, i) => ~ net[i].ok
    BY <1>2, <2>1 DEF Makes, Proper, IsCall
  <2>2. CASE net' = Served(net, i, data)
    <3>1. Answers(net, i, net', data, TRUE)
      BY <1>2, <2>1, <2>2, ProperAnswered
    <3> QED BY <1>1, <2>1, <2>4, <3>1, ProviderAnswer
  <2>3. CASE net' = Refused(net, i, None)
    <3>1. Answers(net, i, net', None, FALSE)
      BY <1>2, <2>1, <2>3, ProperAnswered
    <3> QED BY <1>1, <2>1, <2>4, <3>1, ProviderAnswer
  <2> QED BY <2>1, <2>2, <2>3
<1>4. CASE Provider!CreateOwn
  <2>0. PICK i \in Provider!Waiting(net, "create") : Provider!CreateOwn!(i)
    BY <1>4 DEF Provider!CreateOwn
  <2> DEFINE m == net[i].arg.mount
             row == [net[i].arg.row EXCEPT !.active = TRUE]
             rows == IF hist.rows = None THEN None ELSE Provider!With(hist.rows, srv.last + 1, row)
  <2>1. /\ i \in DOMAIN net /\ net[i].kind = "create" /\ net[i].stage = "sent"
        /\ LET h == [hist EXCEPT !.rows = rows, !.twice = @ \/ m \in hist.made,
                                 !.made = @ \cup {m}]
           IN \/ net' = Served(net, i, row) /\ hist' = h
              \/ /\ net' = Refused(net, i, None)
                 /\ hist' = [h EXCEPT !.off = TRUE, !.made = @ \ {m}]
    BY <2>0, ProviderCalls DEF Provider!Waiting
  <2> HIDE DEF row, rows
  <2>2. Makes(net, i) /\ ~ net[i].ok /\ m \notin hist.made /\ m \in 0..ui.mount
    BY <1>2, <2>1 DEF ProviderNet, Makes, Proper, IsCall
  <2>3. PICK b, made : /\ b = FALSE /\ b = (hist.twice \/ m \in hist.made)
                       /\ made = hist.made \cup {m}
    <3>1. (hist.twice \/ m \in hist.made) = FALSE
      BY <1>2, <2>2 DEF ProviderPast
    <3> QED BY <3>1
  <2>4. PICK h : h = [hist EXCEPT !.rows = rows, !.twice = b, !.made = made]
    OBVIOUS
  <2>5. /\ ProviderPast(h, ui.mount) /\ h.made = made
    <3>1. /\ h = [texts |-> h.texts, clicks |-> h.clicks, rows |-> h.rows, made |-> h.made,
                  twice |-> h.twice, off |-> h.off]
          /\ h.made = made /\ h.twice = b
      BY <1>2, <2>4 DEF ProviderPast
    <3>2. made \subseteq 0..ui.mount
      BY <1>2, <2>2, <2>3 DEF ProviderPast
    <3> QED BY <2>3, <3>1, <3>2 DEF ProviderPast
  <2>6. \/ net' = Served(net, i, row) /\ hist' = h
        \/ /\ net' = Refused(net, i, None)
           /\ hist' = [h EXCEPT !.off = TRUE, !.made = @ \ {m}]
    BY <2>1, <2>3, <2>4
  <2>7. CASE net' = Served(net, i, row) /\ hist' = h
    <3>1. Answers(net, i, net', row, TRUE)
      BY <1>2, <2>1, <2>7, ProperAnswered
    <3> QED BY <1>1, <2>1, <2>2, <2>3, <2>5, <2>7, <3>1, ProviderAnswer
  <2>8. CASE net' = Refused(net, i, None) /\ hist' = [h EXCEPT !.off = TRUE, !.made = @ \ {m}]
    <3>1. Answers(net, i, net', None, FALSE)
      BY <1>2, <2>1, <2>8, ProperAnswered
    <3>2. PICK rest : rest = h.made \ {m}
      OBVIOUS
    <3>3. rest = hist.made
      BY <2>2, <2>3, <2>5, <3>2
    <3>4. hist' = [h EXCEPT !.off = TRUE, !.made = rest]
      BY <2>8, <3>2
    <3>5. ProviderPast(hist', ui.mount) /\ hist'.made = hist.made
      BY <1>2, <2>5, <3>3, <3>4 DEF ProviderPast
    <3> QED BY <1>1, <2>1, <2>2, <3>1, <3>5, ProviderAnswer
  <2> QED BY <2>6, <2>7, <2>8
<1> QED BY <1>3, <1>4 DEF Provider!Backend

\* A form that opens or stays, whichever.
LEMMA ProviderOpens ==
  ASSUME ProviderInv, UNCHANGED net, ProviderPast(hist', ui.mount), hist'.made = hist.made,
         NEW form, NEW row, ui' = Provider!Opened(form, row)
  PROVE  ProviderInv'
<1>1. CASE ui.form = form
  <2>1. ui' = [ui EXCEPT !.initial = row]
    BY <1>1 DEF Provider!Opened
  <2>2. /\ ProviderUi(ui') /\ ui'.form = ui.form /\ ui'.mount = ui.mount /\ ui'.saving = ui.saving
    BY <2>1 DEF ProviderInv, ProviderUi
  <2> QED BY <2>2 DEF ProviderInv
<1>2. CASE ui.form # form
  <2>1. ui' = [ui EXCEPT !.form = form, !.initial = row, !.fields = row, !.base = row,
                         !.saving = FALSE, !.mount = @ + 1]
    BY <1>2 DEF Provider!Opened
  <2>2. ProviderUi(ui') /\ ui'.mount = ui.mount + 1
    <3>1. PICK mount \in Nat : mount = ui.mount + 1
      BY DEF ProviderInv, ProviderUi
    <3>2. ui' = [ui EXCEPT !.form = form, !.initial = row, !.fields = row, !.base = row,
                           !.saving = FALSE, !.mount = mount]
      BY <2>1, <3>1
    <3>3. ui' = [rows |-> ui.rows, form |-> form, mount |-> mount, fields |-> row,
                 initial |-> row, base |-> row, saving |-> FALSE]
      BY <3>2 DEF ProviderInv, ProviderUi
    <3> QED BY <3>1, <3>3 DEF ProviderUi
  <2>3. /\ 0..ui.mount \subseteq 0..ui'.mount /\ ui'.mount \notin 0..ui.mount
    BY <2>2 DEF ProviderInv, ProviderUi
  <2>4. ProviderPast(hist', ui'.mount)
    BY <2>3 DEF ProviderPast
  <2>5. ProviderNet(net, hist.made, ui'.mount)
    BY <2>3 DEF ProviderInv, ProviderNet
  <2>6. NewForm(ui'.form, ui'.mount, ui'.saving, net, hist.made)
    BY <2>3 DEF ProviderInv, ProviderPast, ProviderNet, NewForm
  <2> QED BY <2>2, <2>4, <2>5, <2>6 DEF ProviderInv
<1> QED BY <1>1, <1>2

LEMMA ProviderButtons ==
  ASSUME ProviderInv, Provider!AddButton \/ Provider!EditButton PROVE ProviderInv'
<1>1. PICK form, row : ui' = Provider!Opened(form, row) /\ net' = net /\ Provider!Click(hist)
  BY DEF Provider!AddButton, Provider!EditButton
<1>2. ProviderPast(hist', ui.mount) /\ hist'.made = hist.made
  BY <1>1 DEF Provider!Click, ProviderInv, ProviderPast
<1> QED BY <1>1, <1>2, ProviderOpens

\* A form that closes.
LEMMA ProviderClosed ==
  ASSUME None # 0, NEW u, ProviderUi(u)
  PROVE  /\ ProviderUi(Provider!Closed(u)) /\ Provider!Closed(u).mount = u.mount
         /\ Provider!Closed(u).form # 0
<1>1. PICK v : v = Provider!Closed(u)
  OBVIOUS
<1>2. /\ v = [rows |-> v.rows, form |-> v.form, mount |-> v.mount, fields |-> v.fields,
              initial |-> v.initial, base |-> v.base, saving |-> v.saving]
      /\ v.mount = u.mount /\ v.form = None /\ v.saving = FALSE
  BY <1>1 DEF Provider!Closed, ProviderUi
<1> QED BY <1>1, <1>2 DEF ProviderUi

LEMMA ProviderCancels ==
  ASSUME None # 0, ProviderInv, Provider!onCancel PROVE ProviderInv'
<1>1. ui' = Provider!Closed(ui) /\ UNCHANGED <<net, hist>>
  BY DEF Provider!onCancel
<1>2. ProviderUi(ui') /\ ui'.mount = ui.mount /\ ui'.form # 0
  BY <1>1, ProviderClosed DEF ProviderInv
<1> QED BY <1>1, <1>2 DEF ProviderInv, NewForm

LEMMA ProviderTypes ==
  ASSUME ProviderInv, Provider!ServiceForm PROVE ProviderInv'
<1>1. PICK f : ui' = [ui EXCEPT !.fields = f] /\ hist' = [hist EXCEPT !.texts = @ + 1] /\ net' = net
  BY DEF Provider!ServiceForm
<1>2. ProviderUi(ui') /\ ui'.form = ui.form /\ ui'.mount = ui.mount /\ ui'.saving = ui.saving
  BY <1>1 DEF ProviderInv, ProviderUi
<1>3. ProviderPast(hist', ui.mount) /\ hist'.made = hist.made
  BY <1>1 DEF ProviderInv, ProviderPast
<1> QED BY <1>1, <1>2, <1>3 DEF ProviderInv

LEMMA ProviderAsk ==
  ASSUME NEW n, NEW m, NEW last, NEW kind, NEW arg, Asks(n, m, last, kind, arg),
         kind \notin {"create", "save"}, NEW made, NEW mount, NEW form, NEW saving,
         ProviderNet(n, made, mount)
  PROVE  /\ ProviderNet(m, made, mount)
         /\ NewForm(form, mount, saving, n, made) => NewForm(form, mount, saving, m, made)
<1>1. \A j : /\ Makes(m, j) <=> Makes(n, j)
             /\ Saves(m, j) <=> Saves(n, j)
             /\ j \in DOMAIN n => m[j] = n[j]
  BY DEF Asks, Makes, Saves
<1>2. ProviderNet(m, made, mount)
  BY <1>1 DEF ProviderNet, Asks, Makes, Saves
<1> QED BY <1>1, <1>2 DEF NewForm, Makes, Saves

LEMMA ProviderSettle ==
  ASSUME NEW n, NEW m, NEW i, Settles(n, m, i), NEW made, NEW mount, NEW form, NEW saving,
         ProviderNet(n, made, mount)
  PROVE  /\ ProviderNet(m, made, mount)
         /\ NewForm(form, mount, saving, n, made) /\ ~ (Makes(n, i) /\ n[i].ok)
              => NewForm(form, mount, saving, m, made)
         /\ Makes(n, i) => \A j : Makes(m, j) => m[j].arg.mount # n[i].arg.mount
<1>1. /\ \A j : Makes(m, j) => Makes(n, From(i, j)) /\ m[j] = n[From(i, j)] /\ From(i, j) # i
      /\ \A j : Saves(m, j) => Saves(n, From(i, j)) /\ m[j] = n[From(i, j)] /\ From(i, j) # i
      /\ \A j, k : Makes(m, j) /\ Makes(m, k) /\ From(i, j) = From(i, k) => j = k
      /\ \A k : Makes(n, k) /\ k # i => \E j : Makes(m, j) /\ m[j] = n[k]
      /\ Proper(m)
  BY DEF Settles, Makes, Saves
<1>2. ProviderNet(m, made, mount)
  BY <1>1 DEF ProviderNet
<1>3. NewForm(form, mount, saving, n, made) /\ ~ (Makes(n, i) /\ n[i].ok)
        => NewForm(form, mount, saving, m, made)
  BY <1>1 DEF NewForm
<1>4. Makes(n, i) => \A j : Makes(m, j) => m[j].arg.mount # n[i].arg.mount
  BY <1>1 DEF ProviderNet
<1> QED BY <1>2, <1>3, <1>4

LEMMA ProviderSubmits ==
  ASSUME ProviderInv, Provider!handleSubmit PROVE ProviderInv'
<1>1. /\ ~ ui.saving /\ ui' = [ui EXCEPT !.saving = TRUE] /\ Provider!Click(hist)
      /\ \E kind, arg :
            /\ kind \in {"create", "save"}
            /\ net' = Sent(net, kind, arg) /\ arg.mount = ui.mount
            /\ kind = "create" <=> ui.form = 0
  <2>1. CASE ui.form = 0
    BY <2>1, ProviderCalls DEF Provider!handleSubmit, Provider!MaySave, Provider!New
  <2>2. CASE ui.form # 0
    BY <2>2, ProviderCalls DEF Provider!handleSubmit, Provider!MaySave, Provider!New
  <2> QED BY <2>1, <2>2
<1>2. PICK kind, arg :
        /\ kind \in {"create", "save"}
        /\ net' = Sent(net, kind, arg) /\ arg.mount = ui.mount
        /\ kind = "create" <=> ui.form = 0
  BY <1>1
<1>3. PICK last : Asks(net, net', last, kind, arg)
  BY <1>2, ProperSent DEF ProviderInv, ProviderNet
<1>4. ProviderPast(hist', ui.mount) /\ hist'.made = hist.made
  BY <1>1 DEF Provider!Click, ProviderInv, ProviderPast
<1>5. ProviderUi(ui') /\ ui'.form = ui.form /\ ui'.mount = ui.mount /\ ui'.saving
  BY <1>1 DEF ProviderInv, ProviderUi
<1>6. /\ \A j : Makes(net', j) <=> Makes(net, j) \/ (j = last /\ kind = "create")
      /\ \A j : Saves(net', j) <=> Saves(net, j) \/ (j = last /\ kind = "save")
      /\ \A j : j \in DOMAIN net => net'[j] = net[j]
      /\ last \notin DOMAIN net /\ net'[last].arg.mount = ui.mount /\ Proper(net')
      /\ ui.mount \in 0..ui.mount
  BY <1>2, <1>3 DEF Asks, Makes, Saves, ProviderInv, ProviderUi
<1>7. ui.form = 0 => /\ ui.mount \notin hist.made
                     /\ \A j : Makes(net, j) => net[j].arg.mount # ui.mount
  BY <1>1 DEF ProviderInv, NewForm
<1>8. ProviderNet(net', hist.made, ui.mount)
  <2>1. \A j : Makes(net', j) => net'[j].arg.mount \in 0..ui.mount
    BY <1>6 DEF ProviderInv, ProviderNet, Makes
  <2>2. \A j : Makes(net', j) /\ ~ net'[j].ok => net'[j].arg.mount \notin hist.made
    BY <1>2, <1>6, <1>7 DEF ProviderInv, ProviderNet, Makes
  <2>3. \A j, k : Makes(net', j) /\ Makes(net', k) /\ net'[j].arg.mount = net'[k].arg.mount => j = k
    BY <1>2, <1>6, <1>7 DEF ProviderInv, ProviderNet, Makes
  <2>4. \A j : Saves(net', j) => net'[j].arg.mount \in 0..ui.mount
    BY <1>6 DEF ProviderInv, ProviderNet, Saves
  <2> QED BY <1>6, <2>1, <2>2, <2>3, <2>4 DEF ProviderNet
<1>9. NewForm(ui.form, ui.mount, TRUE, net', hist.made)
  <2>1. \A j : ui.form = 0 /\ Saves(net', j) => net'[j].arg.mount # ui.mount
    BY <1>2, <1>6 DEF ProviderInv, NewForm, Saves
  <2> QED BY <1>7, <2>1 DEF NewForm
<1> QED BY <1>4, <1>5, <1>8, <1>9 DEF ProviderInv

LEMMA ProviderSaved ==
  ASSUME None # 0, ProviderInv, Provider!SaveAnswered PROVE ProviderInv'
<1>1. PICK i \in DOMAIN net :
        /\ net[i].kind \in {"create", "save"} /\ hist' = hist
        /\ ui' = IF net[i].ok THEN Provider!Closed(ui)
                 ELSE IF ui.mount = net[i].arg.mount THEN [ui EXCEPT !.saving = FALSE] ELSE ui
        /\ net' = IF net[i].ok THEN Sent(Settled(net, i), "load", None) ELSE Settled(net, i)
  BY ProviderCalls DEF Provider!SaveAnswered, Provider!Answered
<1>2. PICK m : m = Settled(net, i)
  OBVIOUS
<1>3. Settles(net, m, i) /\ Proper(m) /\ (Makes(net, i) \/ Saves(net, i))
  BY <1>1, <1>2, ProperSettled DEF ProviderInv, ProviderNet, Settles, Makes, Saves
<1>4. /\ ProviderNet(m, hist.made, ui.mount)
      /\ ~ net[i].ok => NewForm(ui.form, ui.mount, ui.saving, m, hist.made)
      /\ Makes(net, i) => \A j : Makes(m, j) => m[j].arg.mount # net[i].arg.mount
  BY <1>3, ProviderSettle DEF ProviderInv
<1>5. CASE net[i].ok
  <2>1. ProviderUi(ui') /\ ui'.mount = ui.mount /\ ui'.form # 0
    BY <1>1, <1>5, ProviderClosed DEF ProviderInv
  <2>2. PICK last : Asks(m, net', last, "load", None)
    BY <1>1, <1>2, <1>3, <1>5, ProperSent
  <2>3. ProviderNet(net', hist.made, ui.mount)
    BY <1>4, <2>2, ProviderAsk
  <2> QED BY <1>1, <2>1, <2>3 DEF ProviderInv, NewForm
<1>6. CASE ~ net[i].ok /\ ui.mount # net[i].arg.mount
  BY <1>1, <1>2, <1>4, <1>6 DEF ProviderInv
<1>7. CASE ~ net[i].ok /\ ui.mount = net[i].arg.mount
  <2>1. ProviderUi(ui') /\ ui'.mount = ui.mount /\ ui'.form = ui.form
    BY <1>1, <1>7 DEF ProviderInv, ProviderUi
  <2>2. ui.form = 0 => Makes(net, i)
    BY <1>3, <1>7 DEF ProviderInv, NewForm
  <2>3. NewForm(ui.form, ui.mount, ui'.saving, m, hist.made)
    BY <1>4, <1>7, <2>2 DEF NewForm
  <2> QED BY <1>1, <1>2, <1>4, <1>7, <2>1, <2>3 DEF ProviderInv
<1> QED BY <1>5, <1>6, <1>7

LEMMA ProviderRows ==
  ASSUME ProviderInv,
         \/ Provider!loadMine \/ Provider!ToggleAnswered \/ Provider!DeleteAnswered
         \/ Provider!handleToggleActive \/ Provider!handleDelete
  PROVE  ProviderInv'
<1>1. CASE Provider!loadMine \/ Provider!ToggleAnswered \/ Provider!DeleteAnswered
  <2>1. PICK i, rows :
          /\ i \in DOMAIN net
          /\ net[i].kind \notin {"create", "save"} /\ net' = Settled(net, i) /\ hist' = hist
          /\ ui' = ui \/ ui' = [ui EXCEPT !.rows = rows]
    <3>1. CASE Provider!loadMine
      BY <3>1, ProviderCalls DEF Provider!loadMine, Provider!Answered
    <3>2. CASE Provider!ToggleAnswered
      <4>1. PICK i \in DOMAIN net :
              /\ net[i].kind = "toggle" /\ net' = Settled(net, i) /\ hist' = hist
              /\ ui' = ui \/ ui' = [ui EXCEPT !.rows[net[i].arg.listing] = net[i].data]
        BY <3>2, ProviderCalls DEF Provider!ToggleAnswered, Provider!Answered
      <4>2. PICK rows : rows = [ui.rows EXCEPT ![net[i].arg.listing] = net[i].data]
        OBVIOUS
      <4>3. ui' = ui \/ ui' = [ui EXCEPT !.rows = rows]
        BY <4>1, <4>2
      <4> QED BY <4>1, <4>3
    <3>3. CASE Provider!DeleteAnswered
      BY <3>3, ProviderCalls DEF Provider!DeleteAnswered, Provider!Answered
    <3> QED BY <1>1, <3>1, <3>2, <3>3
  <2>2. Settles(net, net', i) /\ ~ Makes(net, i)
    BY <2>1, ProperSettled DEF ProviderInv, ProviderNet, Makes
  <2>3. ProviderUi(ui') /\ ui'.form = ui.form /\ ui'.mount = ui.mount /\ ui'.saving = ui.saving
    BY <2>1 DEF ProviderInv, ProviderUi
  <2> QED BY <2>1, <2>2, <2>3, ProviderSettle DEF ProviderInv
<1>2. CASE Provider!handleToggleActive \/ Provider!handleDelete
  <2>1. PICK kind, arg :
          kind \in {"toggle", "delete"} /\ net' = Sent(net, kind, arg) /\ ui' = ui /\ Provider!Click(hist)
    BY <1>2, ProviderCalls DEF Provider!handleToggleActive, Provider!handleDelete
  <2>2. PICK last : Asks(net, net', last, kind, arg)
    BY <2>1, ProperSent DEF ProviderInv, ProviderNet
  <2>3. ProviderPast(hist', ui.mount) /\ hist'.made = hist.made
    BY <2>1 DEF Provider!Click, ProviderInv, ProviderPast
  <2> QED BY <2>1, <2>2, <2>3, ProviderAsk DEF ProviderInv
<1> QED BY <1>1, <1>2

LEMMA ProviderNext ==
  ASSUME None # 0, ProviderInv, [Provider!Next]_(Provider!vars) PROVE ProviderInv'
<1>1. CASE UNCHANGED Provider!vars
  BY <1>1 DEF Provider!vars, ProviderInv
<1> QED BY <1>1, ProviderBackend, ProviderButtons, ProviderCancels, ProviderTypes,
           ProviderSubmits, ProviderSaved, ProviderRows DEF Provider!Next

\* One form makes one listing, however often it is saved, closed and opened, unless the
\* answer of the call that made one is lost and the form, left open, is saved again.
THEOREM ListingMadeOnce == None # 0 => (Provider!Spec => []Provider!OneListingPerForm)
<1>1. ProviderInv => Provider!OneListingPerForm
  BY DEF ProviderInv, ProviderPast, Provider!OneListingPerForm
<1>2. SUFFICES ASSUME None # 0 PROVE Provider!Spec => []Provider!OneListingPerForm
  OBVIOUS
<1>3. Provider!Init => ProviderInv
  BY <1>2, ProviderInit
<1>4. ProviderInv /\ [Provider!Next]_(Provider!vars) => ProviderInv'
  BY <1>2, ProviderNext
<1> QED BY <1>1, <1>3, <1>4, PTL DEF Provider!Spec

-----------------------------------------------------------------------------
(* The tasks of an event.  A title is in the form, on its way or filed: the   *)
(* form takes no click from the moment it sends one until the list was read   *)
(* again, and what it sends was filed by no call it has heard of.  Only a     *)
(* title whose answer was lost has a twin.                                    *)

CONSTANTS MaxTasks, MaxTicks

TaskList == INSTANCE EventTasks

LEMMA TaskCalls ==
  /\ \A n, i, d : TaskList!Served(n, i, d) = Served(n, i, d)
  /\ \A n, i, d : TaskList!Refused(n, i, d) = Refused(n, i, d)
  /\ \A n, i : TaskList!Settled(n, i) = Settled(n, i)
  /\ \A n, k, a : TaskList!Sent(n, k, a) = Sent(n, k, a)
BY DEF TaskList!Served, Served, TaskList!Refused, Refused, TaskList!Settled, Settled,
       TaskList!RemoveAt, RemoveAt, TaskList!Sent, Sent, TaskList!Call, Call

\* A title is no twin.
LEMMA TwinsApart ==
  ASSUME MaxTasks \in Nat, NEW t \in TaskList!Titles
  PROVE  /\ t \in TaskList!Tasks /\ TaskList!Twin(t) \in TaskList!Tasks
         /\ TaskList!Twin(t) \notin TaskList!Titles
         /\ \A s \in TaskList!Titles : TaskList!Twin(s) = TaskList!Twin(t) => s = t
BY DEF TaskList!Titles, TaskList!Tasks, TaskList!Twin

\* A task being filed, and the read of the list that follows.
Creates(n, i) == i \in DOMAIN n /\ n[i].kind = "create"
Adds(n, i) == Creates(n, i) \/ (i \in DOMAIN n /\ n[i].kind = "load" /\ n[i].arg = "create")

TaskUi(u) == /\ u = [tasks |-> u.tasks, title |-> u.title, loading |-> u.loading,
                     adding |-> u.adding]
             /\ u.adding \in BOOLEAN

TaskPast(h) == /\ h = [typed |-> h.typed, clicks |-> h.clicks, crossed |-> h.crossed,
                       lost |-> h.lost]
               /\ h.typed \in 0..MaxTasks

\* What is filed was typed, and filed once; a twin needs a lost answer.
TaskFiled(s, typed, lost) ==
    /\ s = [filed |-> s.filed, status |-> s.status]
    /\ s.filed \in [TaskList!Tasks -> {0, 1}]
    /\ \A t \in TaskList!Titles : s.filed[t] = 1 => t \in 1..typed
    /\ \A t \in TaskList!Titles \ lost : s.filed[TaskList!Twin(t)] = 0

TaskNet(n, filed, typed, adding) ==
    /\ Proper(n)
    /\ \A i : Creates(n, i) =>
          /\ n[i].arg \in 1..typed
          /\ ~ n[i].ok => \A t \in TaskList!Titles : t = n[i].arg => filed[t] = 0
    /\ \A i, j : Adds(n, i) /\ Adds(n, j) => i = j
    /\ ~ adding => \A i : ~ Adds(n, i)

\* The title in the form is filed only by the call whose answer will wipe it.
TitleToFile(title, n, filed, typed) ==
    title # None =>
        /\ title \in 1..typed
        /\ \A t \in TaskList!Titles : t = title =>
              filed[t] = 0 \/ \E i : Creates(n, i) /\ n[i].ok /\ n[i].arg = t

TaskInv ==
    /\ TaskUi(ui) /\ TaskPast(hist) /\ TaskFiled(srv, hist.typed, hist.lost)
    /\ TaskNet(net, srv.filed, hist.typed, ui.adding)
    /\ TitleToFile(ui.title, net, srv.filed, hist.typed)

LEMMA TaskInit ==
  ASSUME MaxTasks \in Nat, None # "create", TaskList!Init PROVE TaskInv
<1>1. PICK e : e = << >>
  OBVIOUS
<1>2. Proper(e) /\ DOMAIN e = {}
  BY <1>1, ProperEmpty
<1>3. net = Sent(e, "load", None)
  BY <1>1, TaskCalls DEF TaskList!Init
<1>4. PICK last : Asks(e, net, last, "load", None)
  BY <1>2, <1>3, ProperSent
<1>5. Proper(net) /\ \A i : ~ Adds(net, i)
  BY <1>2, <1>4 DEF Asks, Adds, Creates
<1>6. TaskUi(ui) /\ ui.title = None
  BY DEF TaskList!Init, TaskUi
<1>7. TaskPast(hist) /\ TaskFiled(srv, hist.typed, hist.lost)
  BY TwinsApart DEF TaskList!Init, TaskPast, TaskFiled
<1> QED BY <1>5, <1>6, <1>7 DEF TaskInv, TaskNet, TitleToFile, Adds

\* An answer, if what is filed goes with it.
LEMMA TaskAnswer ==
  ASSUME MaxTasks \in Nat, TaskInv, ui' = ui, TaskPast(hist'), hist'.typed = hist.typed,
         NEW i \in DOMAIN net, Creates(net, i) => ~ net[i].ok, NEW data, NEW ok,
         Answers(net, i, net', data, ok), TaskFiled(srv', hist.typed, hist'.lost),
         \A t \in TaskList!Titles :
            \/ srv'.filed[t] <= srv.filed[t]
            \/ Creates(net, i) /\ ok = TRUE /\ net[i].arg = t
  PROVE  TaskInv'
<1>1. /\ Proper(net') /\ DOMAIN net' = DOMAIN net
      /\ \A j \in DOMAIN net \ {i} : net'[j] = net[j]
      /\ \A j \in DOMAIN net : net'[j].kind = net[j].kind /\ net'[j].arg = net[j].arg
      /\ net'[i].ok = ok
  BY DEF Answers
<1>2. \A j : (Creates(net', j) <=> Creates(net, j)) /\ (Adds(net', j) <=> Adds(net, j))
  BY <1>1 DEF Creates, Adds
<1>3. \A t \in TaskList!Titles : srv.filed[t] \in {0, 1} /\ srv'.filed[t] \in {0, 1}
  BY TwinsApart DEF TaskInv, TaskFiled
<1>5. TaskNet(net', srv'.filed, hist.typed, ui.adding)
  <2>1. ASSUME NEW j, Creates(net', j), ~ net'[j].ok,
               NEW t \in TaskList!Titles, t = net'[j].arg
        PROVE  srv'.filed[t] = 0
    <3>1. Creates(net, j) /\ net[j].arg = t /\ ~ net[j].ok
      BY <1>1, <1>2, <2>1 DEF Creates
    <3>2. srv.filed[t] = 0
      BY <3>1 DEF TaskInv, TaskNet
    <3>3. CASE srv'.filed[t] <= srv.filed[t]
      BY <1>3, <3>2, <3>3
    <3>4. CASE Creates(net, i) /\ ok = TRUE /\ net[i].arg = t
      <4>1. j = i
        BY <3>1, <3>4 DEF TaskInv, TaskNet, Adds
      <4> QED BY <1>1, <2>1, <3>4, <4>1
    <3> QED BY <3>3, <3>4
  <2>2. \A j : Creates(net', j) => net'[j].arg \in 1..hist.typed
    BY <1>1, <1>2 DEF TaskInv, TaskNet, Creates
  <2>3. /\ \A j, k : Adds(net', j) /\ Adds(net', k) => j = k
        /\ ~ ui.adding => \A j : ~ Adds(net', j)
    BY <1>2 DEF TaskInv, TaskNet
  <2> QED BY <1>1, <2>1, <2>2, <2>3 DEF TaskNet
<1>6. TitleToFile(ui.title, net', srv'.filed, hist.typed)
  <2>1. ASSUME ui.title # None, NEW t \in TaskList!Titles, t = ui.title, srv'.filed[t] # 0
        PROVE  \E j : Creates(net', j) /\ net'[j].ok /\ net'[j].arg = t
    <3>1. CASE srv'.filed[t] <= srv.filed[t]
      <4>1. srv.filed[t] # 0
        BY <1>3, <2>1, <3>1
      <4>2. PICK j : Creates(net, j) /\ net[j].ok /\ net[j].arg = t
        BY <2>1, <4>1 DEF TaskInv, TitleToFile
      <4> QED BY <1>1, <1>2, <4>2 DEF Creates
    <3>2. CASE Creates(net, i) /\ ok = TRUE /\ net[i].arg = t
      BY <1>1, <1>2, <3>2
    <3> QED BY <2>1, <3>1, <3>2
  <2> QED BY <2>1 DEF TaskInv, TitleToFile
<1> QED BY <1>5, <1>6 DEF TaskInv

\* One more task of a title that was not filed so far, or of its twin.
LEMMA TaskServesCreate ==
  ASSUME MaxTasks \in Nat, TaskInv, TaskList!ServeCreate, ui' = ui PROVE TaskInv'
<1>0. PICK i \in TaskList!Waiting(net, "create"), lost \in BOOLEAN : TaskList!ServeCreate!(i, lost)
  BY DEF TaskList!ServeCreate
<1> DEFINE a == net[i].arg
           t == IF lost THEN TaskList!Twin(a) ELSE a
<1>1. /\ i \in DOMAIN net
      /\ net[i].kind = "create" /\ net[i].stage = "sent" /\ net[i].arg = a
      /\ t = IF lost THEN TaskList!Twin(a) ELSE a
      /\ lost => a \notin hist.lost
      /\ srv' = [srv EXCEPT !.filed[t] = @ + 1, !.status[t] = "todo"]
      /\ net' = IF lost THEN Refused(net, i, None) ELSE Served(net, i, None)
      /\ hist' = [hist EXCEPT !.lost = IF lost THEN @ \cup {a} ELSE @]
  BY <1>0, TaskCalls DEF TaskList!Waiting
<1> HIDE DEF a, t
<1>2. /\ Proper(net) /\ TaskFiled(srv, hist.typed, hist.lost) /\ TaskPast(hist)
      /\ TaskNet(net, srv.filed, hist.typed, ui.adding)
  BY DEF TaskInv, TaskNet
<1>3. Creates(net, i) /\ ~ net[i].ok
  BY <1>1, <1>2 DEF Creates, Proper, IsCall
<1>4. PICK ok \in BOOLEAN : ok = ~ lost /\ Answers(net, i, net', None, ok)
  <2>1. CASE lost
    BY <1>1, <1>2, <2>1, ProperAnswered
  <2>2. CASE ~ lost
    BY <1>1, <1>2, <2>2, ProperAnswered
  <2> QED BY <2>1, <2>2
<1>5. /\ a \in 1..hist.typed /\ a \in TaskList!Titles /\ hist.typed \in Nat
      /\ srv.filed[a] = 0
  BY <1>1, <1>2, <1>3 DEF TaskNet, TaskPast, TaskList!Titles
<1>6. /\ t \in TaskList!Tasks /\ srv.filed[t] = 0
      /\ \A s \in TaskList!Titles : /\ t = s <=> ~ lost /\ s = a
                                    /\ t = TaskList!Twin(s) <=> lost /\ s = a
  BY <1>1, <1>2, <1>5, TwinsApart DEF TaskFiled
<1>7. PICK filed : filed = [srv.filed EXCEPT ![t] = @ + 1]
  OBVIOUS
<1>8. /\ filed \in [TaskList!Tasks -> {0, 1}]
      /\ \A s \in TaskList!Tasks : filed[s] = IF s = t THEN 1 ELSE srv.filed[s]
  <2>1. srv.filed \in [TaskList!Tasks -> {0, 1}]
    BY <1>2 DEF TaskFiled
  <2>2. \A s \in TaskList!Tasks : filed[s] = IF s = t THEN 1 ELSE srv.filed[s]
    BY <1>6, <1>7, <2>1
  <2> QED BY <1>6, <1>7, <2>1, <2>2
<1>9. srv' = [filed |-> filed, status |-> srv'.status]
  <2>1. PICK status : status = [srv.status EXCEPT ![t] = "todo"]
    OBVIOUS
  <2>2. srv' = [srv EXCEPT !.filed = filed, !.status = status]
    BY <1>1, <1>7, <2>1
  <2> QED BY <1>2, <2>2 DEF TaskFiled
<1>10. PICK gone : gone = IF lost THEN hist.lost \cup {a} ELSE hist.lost
  OBVIOUS
<1>11. TaskPast(hist') /\ hist'.typed = hist.typed /\ hist'.lost = gone
  <2>1. hist' = [hist EXCEPT !.lost = gone]
    BY <1>1, <1>10
  <2> QED BY <1>2, <2>1 DEF TaskPast
<1>12. TaskFiled(srv', hist.typed, gone)
  <2>1. \A s \in TaskList!Titles : s \in TaskList!Tasks /\ TaskList!Twin(s) \in TaskList!Tasks
    BY TwinsApart
  <2>2. ASSUME NEW s \in TaskList!Titles, filed[s] = 1 PROVE s \in 1..hist.typed
    <3>1. s = a \/ srv.filed[s] = 1
      BY <1>6, <1>8, <2>1, <2>2
    <3> QED BY <1>2, <1>5, <3>1 DEF TaskFiled
  <2>3. ASSUME NEW s \in TaskList!Titles \ gone PROVE filed[TaskList!Twin(s)] = 0
    <3>1. TaskList!Twin(s) # t /\ s \notin hist.lost
      BY <1>6, <1>10, <2>3
    <3>2. filed[TaskList!Twin(s)] = srv.filed[TaskList!Twin(s)]
      BY <1>8, <2>1, <3>1
    <3> QED BY <1>2, <3>1, <3>2 DEF TaskFiled
  <2> QED BY <1>8, <1>9, <2>2, <2>3 DEF TaskFiled
<1>13. ASSUME NEW s \in TaskList!Titles
       PROVE  \/ srv'.filed[s] <= srv.filed[s]
              \/ Creates(net, i) /\ ok = TRUE /\ net[i].arg = s
  <2>1. CASE s = t
    BY <1>1, <1>3, <1>4, <1>6, <2>1
  <2>2. CASE s # t
    <3>1. s \in TaskList!Tasks
      BY TwinsApart
    <3>2. srv'.filed[s] = srv.filed[s] /\ srv.filed[s] \in {0, 1}
      BY <1>2, <1>8, <1>9, <2>2, <3>1 DEF TaskFiled
    <3> QED BY <3>2
  <2> QED BY <2>1, <2>2
<1> QED BY <1>3, <1>1, <1>4, <1>11, <1>12, <1>13, TaskAnswer

LEMMA TaskBackend ==
  ASSUME MaxTasks \in Nat, TaskInv, TaskList!Backend PROVE TaskInv'
<1>1. ui' = ui
  BY DEF TaskList!Backend
<1>2. /\ Proper(net) /\ TaskFiled(srv, hist.typed, hist.lost) /\ TaskPast(hist)
      /\ \A i \in DOMAIN net : net[i].stage = "sent" => ~ net[i].ok
  BY DEF TaskInv, TaskNet, Proper, IsCall
<1>3. \A t \in TaskList!Titles : srv.filed[t] <= srv.filed[t]
  BY <1>2, TwinsApart DEF TaskFiled
<1>4. CASE TaskList!ServeLoad
  <2>1. PICK i, data : /\ i \in DOMAIN net /\ net[i].stage = "sent"
                       /\ net' = Served(net, i, data) /\ UNCHANGED <<srv, hist>>
    BY <1>4, TaskCalls DEF TaskList!ServeLoad, TaskList!Waiting
  <2>2. Answers(net, i, net', data, TRUE)
    BY <1>2, <2>1, ProperAnswered
  <2> QED BY <1>1, <1>2, <1>3, <2>1, <2>2, TaskAnswer
<1>5. CASE TaskList!ServeRefusal \/ TaskList!AnswerLost
  <2>1. PICK i \in DOMAIN net : /\ net[i].stage = "sent" \/ net[i].kind # "create"
                               /\ net' = Refused(net, i, None) /\ UNCHANGED <<srv, hist>>
    BY <1>5, TaskCalls DEF TaskList!ServeRefusal, TaskList!AnswerLost, TaskList!Coming
  <2>2. Answers(net, i, net', None, FALSE) /\ (Creates(net, i) => ~ net[i].ok)
    BY <1>2, <2>1, ProperAnswered DEF Creates
  <2> QED BY <1>1, <1>2, <1>3, <2>1, <2>2, TaskAnswer
<1>6. CASE TaskList!ServeUpdate
  <2>1. PICK i, a, b :
          /\ i \in DOMAIN net
          /\ net[i].stage = "sent" /\ net' = Served(net, i, None)
          /\ srv' = [srv EXCEPT !.status[a.task] = a.status]
          /\ hist' = [hist EXCEPT !.crossed = b]
    BY <1>6, TaskCalls DEF TaskList!ServeUpdate, TaskList!Waiting
  <2>2. Answers(net, i, net', None, TRUE)
    BY <1>2, <2>1, ProperAnswered
  <2>3. TaskFiled(srv', hist.typed, hist.lost) /\ srv'.filed = srv.filed
    BY <1>2, <2>1 DEF TaskFiled
  <2>4. TaskPast(hist') /\ hist'.typed = hist.typed /\ hist'.lost = hist.lost
    BY <1>2, <2>1 DEF TaskPast
  <2> QED BY <1>1, <1>2, <1>3, <2>1, <2>2, <2>3, <2>4, TaskAnswer
<1>7. CASE TaskList!ServeDelete
  <2>1. PICK i, a :
          /\ i \in DOMAIN net
          /\ net[i].stage = "sent" /\ net' = Served(net, i, None)
          /\ srv' = [srv EXCEPT !.filed[a] = 0] /\ hist' = hist
    BY <1>7, TaskCalls DEF TaskList!ServeDelete, TaskList!Waiting
  <2>2. Answers(net, i, net', None, TRUE)
    BY <1>2, <2>1, ProperAnswered
  <2>3. PICK filed : filed = [srv.filed EXCEPT ![a] = 0]
    OBVIOUS
  <2>4. /\ filed \in [TaskList!Tasks -> {0, 1}]
        /\ \A t \in TaskList!Tasks : filed[t] = 0 \/ filed[t] = srv.filed[t]
    BY <1>2, <2>3 DEF TaskFiled
  <2>5. srv' = [filed |-> filed, status |-> srv.status]
    BY <1>2, <2>1, <2>3 DEF TaskFiled
  <2>6. TaskFiled(srv', hist.typed, hist.lost)
    BY <1>2, <2>4, <2>5, TwinsApart DEF TaskFiled
  <2>7. \A t \in TaskList!Titles : srv'.filed[t] <= srv.filed[t]
    <3>1. ASSUME NEW t \in TaskList!Titles PROVE srv'.filed[t] <= srv.filed[t]
      <4>1. t \in TaskList!Tasks /\ srv.filed[t] \in {0, 1}
        BY <1>2, TwinsApart DEF TaskFiled
      <4> QED BY <2>4, <2>5, <4>1
    <3> QED BY <3>1
  <2> QED BY <1>1, <1>2, <2>1, <2>2, <2>6, <2>7, TaskAnswer
<1>8. CASE TaskList!ServeCreate
  BY <1>1, <1>8, TaskServesCreate
<1> QED BY <1>4, <1>5, <1>6, <1>7, <1>8 DEF TaskList!Backend

LEMMA TaskSettle ==
  ASSUME NEW n, NEW m, NEW i, Settles(n, m, i), NEW filed, NEW typed, NEW adding, NEW title,
         TaskNet(n, filed, typed, adding), TitleToFile(title, n, filed, typed),
         title # None => ~ (Creates(n, i) /\ n[i].ok)
  PROVE  /\ TaskNet(m, filed, typed, adding)
         /\ TitleToFile(title, m, filed, typed)
         /\ Adds(n, i) => \A j : ~ Adds(m, j)
<1>1. /\ \A j : Creates(m, j) => Creates(n, From(i, j)) /\ m[j] = n[From(i, j)] /\ From(i, j) # i
      /\ \A j : Adds(m, j) => Adds(n, From(i, j)) /\ From(i, j) # i
      /\ \A j, k : Adds(m, j) /\ Adds(m, k) /\ From(i, j) = From(i, k) => j = k
      /\ \A k : Creates(n, k) /\ k # i => \E j : Creates(m, j) /\ m[j] = n[k]
  BY DEF Settles, Creates, Adds
<1>2. Proper(m)
  BY DEF Settles
<1>3. TaskNet(m, filed, typed, adding)
  BY <1>1, <1>2 DEF TaskNet
<1>4. TitleToFile(title, m, filed, typed)
  BY <1>1 DEF TitleToFile
<1>5. Adds(n, i) => \A j : ~ Adds(m, j)
  BY <1>1 DEF TaskNet
<1> QED BY <1>3, <1>4, <1>5

LEMMA TaskAsk ==
  ASSUME NEW n, NEW m, NEW last, NEW kind, NEW arg, Asks(n, m, last, kind, arg), kind # "create",
         NEW filed, NEW typed, NEW adding, NEW title,
         TaskNet(n, filed, typed, adding), TitleToFile(title, n, filed, typed),
         kind = "load" /\ arg = "create" => adding /\ \A j : ~ Adds(n, j)
  PROVE  TaskNet(m, filed, typed, adding) /\ TitleToFile(title, m, filed, typed)
<1>1. /\ \A j : (Creates(m, j) <=> Creates(n, j)) /\ (Creates(n, j) => m[j] = n[j])
      /\ \A j : Adds(m, j) <=> Adds(n, j) \/ (j = last /\ kind = "load" /\ arg = "create")
  BY DEF Asks, Creates, Adds
<1>2. TaskNet(m, filed, typed, adding)
  BY <1>1 DEF TaskNet, Asks
<1>3. TitleToFile(title, m, filed, typed)
  BY <1>1 DEF TitleToFile
<1> QED BY <1>2, <1>3

LEMMA TaskLoaded ==
  ASSUME TaskInv, TaskList!LoadAnswered PROVE TaskInv'
<1>1. PICK i \in DOMAIN net :
        /\ net[i].kind = "load" /\ net' = Settled(net, i) /\ srv' = srv
        /\ LET after == IF net[i].arg = "create" THEN [ui EXCEPT !.adding = FALSE] ELSE ui
           IN ui' = IF net[i].ok THEN [after EXCEPT !.tasks = net[i].data, !.loading = FALSE] ELSE after
        /\ hist' = [hist EXCEPT !.crossed = @ \/ IF net[i].ok THEN TaskList!Old(net[i].data)
                                                              ELSE net[i].arg = "update"]
  BY TaskCalls DEF TaskList!LoadAnswered, TaskList!Answered
<1>2. Settles(net, net', i)
  BY <1>1, ProperSettled DEF TaskInv, TaskNet
<1>3. TaskPast(hist') /\ hist'.typed = hist.typed /\ hist'.lost = hist.lost
  BY <1>1 DEF TaskInv, TaskPast
<1>4. /\ TaskUi(ui') /\ ui'.title = ui.title
      /\ ui'.adding = IF net[i].arg = "create" THEN FALSE ELSE ui.adding
  BY <1>1 DEF TaskInv, TaskUi
<1>5. /\ TaskNet(net', srv.filed, hist.typed, ui.adding)
      /\ TitleToFile(ui.title, net', srv.filed, hist.typed)
      /\ Adds(net, i) => \A j : ~ Adds(net', j)
  BY <1>1, <1>2, TaskSettle DEF TaskInv, Creates
<1>6. net[i].arg = "create" => Adds(net, i)
  BY <1>1 DEF Adds
<1> QED BY <1>1, <1>3, <1>4, <1>5, <1>6 DEF TaskInv, TaskNet

LEMMA TaskTyped ==
  ASSUME MaxTasks \in Nat, TaskInv, TaskList!Type PROVE TaskInv'
<1>1. /\ ui' = [ui EXCEPT !.title = hist.typed + 1] /\ UNCHANGED <<net, srv>>
      /\ hist' = [hist EXCEPT !.typed = @ + 1] /\ hist.typed < MaxTasks
  BY DEF TaskList!Type
<1>2. /\ hist'.typed = hist.typed + 1 /\ TaskPast(hist') /\ hist.typed \in Nat
      /\ hist'.lost = hist.lost
      /\ 1..hist.typed \subseteq 1..hist'.typed /\ hist'.typed \in 1..hist'.typed
      /\ hist'.typed \notin 1..hist.typed
  BY <1>1 DEF TaskInv, TaskPast
<1>3. TaskUi(ui') /\ ui'.title = hist'.typed /\ ui'.adding = ui.adding
  BY <1>1, <1>2 DEF TaskInv, TaskUi
<1>4. TaskFiled(srv, hist'.typed, hist.lost) /\ TaskNet(net, srv.filed, hist'.typed, ui.adding)
  BY <1>2 DEF TaskInv, TaskFiled, TaskNet
<1>5. TitleToFile(hist'.typed, net, srv.filed, hist'.typed)
  BY <1>2, TwinsApart DEF TaskInv, TaskFiled, TitleToFile
<1> QED BY <1>1, <1>2, <1>3, <1>4, <1>5 DEF TaskInv

LEMMA TaskAdd ==
  ASSUME TaskInv, TaskList!handleAdd PROVE TaskInv'
<1>1. /\ ui.title # None /\ ~ ui.adding /\ ui' = [ui EXCEPT !.adding = TRUE]
      /\ net' = Sent(net, "create", ui.title) /\ UNCHANGED <<srv, hist>>
  BY TaskCalls DEF TaskList!handleAdd, TaskList!TaskForm
<1>2. PICK last : Asks(net, net', last, "create", ui.title)
  BY <1>1, ProperSent DEF TaskInv, TaskNet
<1>3. TaskUi(ui') /\ ui'.title = ui.title /\ ui'.adding
  BY <1>1 DEF TaskInv, TaskUi
<1>4. \A j : ~ Adds(net, j)
  BY <1>1 DEF TaskInv, TaskNet
<1>5. \A j : Adds(net', j) \/ Creates(net', j) => j = last
  BY <1>2, <1>4 DEF Asks, Adds, Creates
<1>6. /\ ui.title \in 1..hist.typed
      /\ \A t \in TaskList!Titles : t = ui.title => srv.filed[t] = 0
  BY <1>1, <1>4 DEF TaskInv, TitleToFile, Adds
<1>7. TaskNet(net', srv.filed, hist.typed, TRUE)
  BY <1>2, <1>5, <1>6 DEF TaskNet, Asks
<1>8. TitleToFile(ui.title, net', srv.filed, hist.typed)
  BY <1>6 DEF TitleToFile
<1> QED BY <1>1, <1>3, <1>7, <1>8 DEF TaskInv, TaskNet

LEMMA TaskCreated ==
  ASSUME None # "create", TaskInv, TaskList!CreateAnswered PROVE TaskInv'
<1>1. PICK i \in DOMAIN net :
        /\ net[i].kind = "create" /\ UNCHANGED <<srv, hist>>
        /\ IF net[i].ok
           THEN ui' = [ui EXCEPT !.title = None] /\ net' = Sent(Settled(net, i), "load", "create")
           ELSE ui' = [ui EXCEPT !.adding = FALSE] /\ net' = Settled(net, i)
  BY TaskCalls DEF TaskList!CreateAnswered, TaskList!Answered, TaskList!Cleared
<1>2. PICK m : m = Settled(net, i)
  OBVIOUS
<1>3. Settles(net, m, i) /\ Proper(m)
  BY <1>2, ProperSettled DEF TaskInv, TaskNet, Settles
<1>4. Creates(net, i) /\ Adds(net, i) /\ ui.adding
  BY <1>1 DEF Creates, Adds, TaskInv, TaskNet
<1>5. CASE net[i].ok
  <2>1. TaskUi(ui') /\ ui'.title = None /\ ui'.adding = ui.adding
    BY <1>1, <1>5 DEF TaskInv, TaskUi
  <2>2. TitleToFile(None, net, srv.filed, hist.typed)
    BY DEF TitleToFile
  <2>3. /\ TaskNet(m, srv.filed, hist.typed, ui.adding)
        /\ TitleToFile(None, m, srv.filed, hist.typed)
        /\ \A j : ~ Adds(m, j)
    BY <1>3, <1>4, <2>2, TaskSettle DEF TaskInv
  <2>4. PICK last : Asks(m, net', last, "load", "create")
    BY <1>1, <1>2, <1>3, <1>5, ProperSent
  <2>5. /\ TaskNet(net', srv.filed, hist.typed, ui.adding)
        /\ TitleToFile(None, net', srv.filed, hist.typed)
    BY <1>4, <2>3, <2>4, TaskAsk
  <2> QED BY <1>1, <2>1, <2>5 DEF TaskInv
<1>6. CASE ~ net[i].ok
  <2>1. TaskUi(ui') /\ ui'.title = ui.title /\ ui'.adding = FALSE /\ net' = m
    BY <1>1, <1>2, <1>6 DEF TaskInv, TaskUi
  <2>2. /\ TaskNet(m, srv.filed, hist.typed, ui.adding)
        /\ TitleToFile(ui.title, m, srv.filed, hist.typed)
        /\ \A j : ~ Adds(m, j)
    BY <1>3, <1>4, <1>6, TaskSettle DEF TaskInv
  <2> QED BY <1>1, <2>1, <2>2 DEF TaskInv, TaskNet
<1> QED BY <1>5, <1>6

LEMMA TaskTicked ==
  ASSUME TaskInv, TaskList!toggleDone \/ TaskList!handleDelete PROVE TaskInv'
<1>1. PICK kind, arg : kind \in {"update", "delete"} /\ net' = Sent(net, kind, arg) /\ srv' = srv
  BY TaskCalls DEF TaskList!toggleDone, TaskList!handleDelete
<1>2. PICK last : Asks(net, net', last, kind, arg)
  BY <1>1, ProperSent DEF TaskInv, TaskNet
<1>3. TaskUi(ui') /\ ui'.title = ui.title /\ ui'.adding = ui.adding
  <2>1. PICK tasks : ui' = [ui EXCEPT !.tasks = tasks] \/ ui' = ui
    BY DEF TaskList!toggleDone, TaskList!handleDelete
  <2> QED BY <2>1 DEF TaskInv, TaskUi
<1>4. TaskPast(hist') /\ hist'.typed = hist.typed /\ hist'.lost = hist.lost
  BY DEF TaskList!toggleDone, TaskList!handleDelete, TaskList!Clicked, TaskInv, TaskPast
<1>5. TaskNet(net', srv.filed, hist.typed, ui.adding) /\ TitleToFile(ui.title, net', srv.filed, hist.typed)
  BY <1>1, <1>2, TaskAsk DEF TaskInv
<1> QED BY <1>1, <1>3, <1>4, <1>5 DEF TaskInv

LEMMA TaskTickAnswered ==
  ASSUME TaskInv, TaskList!UpdateAnswered \/ TaskList!DeleteAnswered PROVE TaskInv'
<1>1. PICK i \in DOMAIN net :
        /\ net[i].kind # "create" /\ UNCHANGED <<srv, hist>>
        /\ net' = Settled(net, i) \/ net' = Sent(Settled(net, i), "load", "update")
  BY TaskCalls DEF TaskList!UpdateAnswered, TaskList!DeleteAnswered, TaskList!Answered, TaskList!FailedTick
<1>2. PICK m : m = Settled(net, i)
  OBVIOUS
<1>3. Settles(net, m, i) /\ Proper(m)
  BY <1>2, ProperSettled DEF TaskInv, TaskNet, Settles
<1>4. TaskUi(ui') /\ ui'.title = ui.title /\ ui'.adding = ui.adding
  <2>1. PICK tasks : ui' = [ui EXCEPT !.tasks = tasks] \/ ui' = ui
    BY DEF TaskList!UpdateAnswered, TaskList!DeleteAnswered
  <2> QED BY <2>1 DEF TaskInv, TaskUi
<1>5. /\ TaskNet(m, srv.filed, hist.typed, ui.adding)
      /\ TitleToFile(ui.title, m, srv.filed, hist.typed)
  BY <1>1, <1>3, TaskSettle DEF TaskInv, Creates
<1>6. CASE net' = m
  BY <1>1, <1>4, <1>5, <1>6 DEF TaskInv
<1>7. CASE net' = Sent(m, "load", "update")
  <2>1. PICK last : Asks(m, net', last, "load", "update")
    BY <1>3, <1>7, ProperSent
  <2>2. TaskNet(net', srv.filed, hist.typed, ui.adding) /\ TitleToFile(ui.title, net', srv.filed, hist.typed)
    BY <1>5, <2>1, TaskAsk
  <2> QED BY <1>1, <1>4, <2>2 DEF TaskInv
<1> QED BY <1>1, <1>2, <1>6, <1>7

LEMMA TaskNext ==
  ASSUME MaxTasks \in Nat, None # "create", TaskInv, [TaskList!Next]_(TaskList!vars) PROVE TaskInv'
<1>1. CASE UNCHANGED TaskList!vars
  BY <1>1 DEF TaskList!vars, TaskInv
<1> QED BY <1>1, TaskBackend, TaskLoaded, TaskTyped, TaskAdd, TaskCreated, TaskTicked,
           TaskTickAnswered DEF TaskList!Next

LEMMA TaskTruth ==
  ASSUME MaxTasks \in Nat, TaskInv PROVE TaskList!NoTaskTwice
<1>1. ASSUME NEW t \in TaskList!Titles \ hist.lost
      PROVE  srv.filed[t] + srv.filed[TaskList!Twin(t)] <= 1
  <2>1. srv.filed[t] \in {0, 1} /\ srv.filed[TaskList!Twin(t)] = 0
    BY <1>1, TwinsApart DEF TaskInv, TaskFiled
  <2> QED BY <2>1
<1> QED BY <1>1 DEF TaskList!NoTaskTwice

\* A title typed once is filed as one task, however many are typed and however
\* often the button is clicked, unless the answer to it was lost: the form cannot
\* tell and keeps the title.
THEOREM TaskFiledOnce ==
  MaxTasks \in Nat /\ None # "create" => (TaskList!Spec => []TaskList!NoTaskTwice)
<1> SUFFICES ASSUME MaxTasks \in Nat, None # "create"
             PROVE  TaskList!Spec => []TaskList!NoTaskTwice
  OBVIOUS
<1>1. TaskInv => TaskList!NoTaskTwice
  BY TaskTruth
<1>2. None # "create"
  OBVIOUS
<1>3. TaskList!Init => TaskInv
  BY <1>2, TaskInit
<1>4. TaskInv /\ [TaskList!Next]_(TaskList!vars) => TaskInv'
  BY <1>2, TaskNext
<1> QED BY <1>1, <1>3, <1>4, PTL DEF TaskList!Spec

-----------------------------------------------------------------------------
(* The card of the backup code.  It sends a creation that was not confirmed   *)
(* only while it believes that there is no code.  Unless two creations        *)
(* overlap, the look at the account came late or the answer of a creation was *)
(* lost, that belief is wrong only from the moment a creation is served until *)
(* its answer arrives, and nothing leaves then.                               *)

CONSTANT MaxCodes

Card == INSTANCE RecoveryCodeCard

LEMMA CardCalls ==
  /\ \A n, i, d : Card!Served(n, i, d) = Served(n, i, d)
  /\ \A n, i, d : Card!Refused(n, i, d) = Refused(n, i, d)
  /\ \A n, i : Card!Settled(n, i) = Settled(n, i)
  /\ \A n, k, a : Card!Sent(n, k, a) = Sent(n, k, a)
  /\ \A n, k : Card!InFlight(n, k) <=> InFlight(n, k)
BY DEF Card!Served, Served, Card!Refused, Refused, Card!Settled, Settled, Card!RemoveAt,
       RemoveAt, Card!Sent, Sent, Card!Call, Call, Card!InFlight, InFlight

CardHonest(c) ==
    /\ c.kind = "me" /\ c.ok => c.data \in BOOLEAN
    /\ c.kind = "create" => c.arg \in BOOLEAN /\ (c.ok => c.data \in Nat)

CardNet(n) == Proper(n) /\ \A i \in DOMAIN n : CardHonest(n[i])

CardShapes ==
    /\ ui \in [status : {"loading", "missing", "present", "unknown"}, password : BOOLEAN,
               busy : BOOLEAN, confirming : BOOLEAN, error : BOOLEAN, code : Nat]
    /\ srv \in Nat
    /\ hist \in [codes : Nat, asked : Nat, twice : BOOLEAN, late : BOOLEAN, lost : BOOLEAN,
              unasked : BOOLEAN]

Creation(n, i) == n[i].kind = "create"
OneCreation(n) == \A i, j \in DOMAIN n : Creation(n, i) /\ Creation(n, j) => i = j
\* a creation that will replace a code without having asked
Unconfirmed(n, i) == Creation(n, i) /\ n[i].stage = "sent" /\ ~ n[i].arg
\* a creation whose answer has not reached the card
Created(n) == \E i \in DOMAIN n : Creation(n, i) /\ n[i].ok

Quiet == ~ hist.twice /\ ~ hist.late /\ ~ hist.lost

CardInv ==
    /\ CardShapes
    /\ CardNet(net)
    /\ ~ hist.twice => OneCreation(net)
    /\ Quiet => ~ hist.unasked
    /\ Quiet /\ ui.status = "missing" => srv = 0 \/ Created(net)
    /\ Quiet => \A i \in DOMAIN net : Unconfirmed(net, i) => srv = 0

\* What an answer, the end of a call and a new creation change of all this.
LEMMA CardAnswers ==
  ASSUME NEW n, NEW m, CardNet(n), NEW i \in DOMAIN n, n[i].stage = "sent",
         NEW data, NEW ok, Answers(n, i, m, data, ok), CardHonest(m[i])
  PROVE  /\ CardNet(m)
         /\ OneCreation(n) => OneCreation(m)
         /\ Created(n) \/ (Creation(n, i) /\ ok = TRUE) => Created(m)
         /\ \A j \in DOMAIN m : Unconfirmed(m, j) => j \in DOMAIN n \ {i} /\ Unconfirmed(n, j)
<1>1. /\ Proper(m) /\ DOMAIN m = DOMAIN n
      /\ \A j \in DOMAIN n \ {i} : m[j] = n[j]
      /\ \A j \in DOMAIN n : m[j].kind = n[j].kind
      /\ m[i].stage = "answered" /\ m[i].ok = ok
  BY DEF Answers
<1>2. CardNet(m)
  BY <1>1 DEF CardNet
<1>3. OneCreation(n) => OneCreation(m)
  BY <1>1 DEF OneCreation, Creation
<1>4. ~ n[i].ok
  BY DEF CardNet, Proper, IsCall
<1>5. Created(n) => Created(m)
  BY <1>1, <1>4 DEF Created, Creation
<1>6. Creation(n, i) /\ ok = TRUE => Created(m)
  BY <1>1 DEF Created, Creation
<1>7. \A j \in DOMAIN m : Unconfirmed(m, j) => j \in DOMAIN n \ {i} /\ Unconfirmed(n, j)
  BY <1>1 DEF Unconfirmed, Creation
<1> QED BY <1>2, <1>3, <1>5, <1>6, <1>7

LEMMA CardSettles ==
  ASSUME NEW n, NEW m, CardNet(n), NEW i \in DOMAIN n, Settles(n, m, i)
  PROVE  /\ CardNet(m)
         /\ OneCreation(n) => OneCreation(m)
         /\ Created(n) /\ ~ (Creation(n, i) /\ n[i].ok) => Created(m)
         /\ \A j \in DOMAIN m : Unconfirmed(m, j) => \E k \in DOMAIN n : Unconfirmed(n, k)
<1>1. CardNet(m)
  BY DEF Settles, CardNet
<1>2. OneCreation(n) => OneCreation(m)
  BY DEF Settles, OneCreation, Creation
<1>3. Created(n) /\ ~ (Creation(n, i) /\ n[i].ok) => Created(m)
  BY DEF Settles, Created, Creation
<1>4. \A j \in DOMAIN m : Unconfirmed(m, j) => \E k \in DOMAIN n : Unconfirmed(n, k)
  BY DEF Settles, Unconfirmed, Creation
<1> QED BY <1>1, <1>2, <1>3, <1>4

LEMMA CardAsks ==
  ASSUME NEW n, NEW m, CardNet(n), NEW arg \in BOOLEAN, NEW last,
         Asks(n, m, last, "create", arg)
  PROVE  /\ CardNet(m)
         /\ ~ InFlight(n, "create") => OneCreation(m)
         /\ Created(n) => Created(m) /\ InFlight(n, "create")
         /\ \A j \in DOMAIN m :
              Unconfirmed(m, j) => ~ arg \/ \E k \in DOMAIN n : Unconfirmed(n, k)
<1>1. CardNet(m)
  BY DEF Asks, CardNet, CardHonest
<1>2. ~ InFlight(n, "create") => OneCreation(m)
  BY DEF Asks, InFlight, OneCreation, Creation
<1>3. Created(n) => Created(m) /\ InFlight(n, "create")
  BY DEF Asks, InFlight, Created, Creation
<1>4. \A j \in DOMAIN m :
        Unconfirmed(m, j) => ~ arg \/ \E k \in DOMAIN n : Unconfirmed(n, k)
  BY DEF Asks, Unconfirmed, Creation
<1> QED BY <1>1, <1>2, <1>3, <1>4

LEMMA CardInit == Card!Init => CardInv
<1> SUFFICES ASSUME Card!Init PROVE CardInv
  OBVIOUS
<1>1. PICK e : e = << >>
  OBVIOUS
<1>2. Proper(e) /\ DOMAIN e = {}
  BY <1>1, ProperEmpty
<1>3. net = Sent(e, "me", None)
  BY <1>1, CardCalls DEF Card!Init
<1>4. PICK last : Asks(e, net, last, "me", None)
  BY <1>2, <1>3, ProperSent
<1>5. Proper(net) /\ \A i \in DOMAIN net : net[i].kind = "me" /\ ~ net[i].ok
  BY <1>2, <1>4 DEF Asks
<1>6. CardNet(net)
  BY <1>5 DEF CardNet, CardHonest
<1>7. \A i \in DOMAIN net : ~ Creation(net, i)
  BY <1>5 DEF Creation
<1>8. CardShapes /\ ui.status = "loading" /\ ~ hist.unasked
  BY DEF Card!Init, CardShapes
<1> QED BY <1>6, <1>7, <1>8 DEF CardInv, OneCreation, Unconfirmed

\* An answer that makes no code leaves the card as it is.
LEMMA CardAnswered ==
  ASSUME CardInv, NEW i \in DOMAIN net, net[i].stage = "sent", NEW data, NEW ok,
         Answers(net, i, net', data, ok), CardHonest(net'[i]), UNCHANGED <<ui, srv, hist>>
  PROVE  CardInv'
<1>1. /\ CardNet(net')
      /\ OneCreation(net) => OneCreation(net')
      /\ Created(net) => Created(net')
      /\ \A j \in DOMAIN net' : Unconfirmed(net', j) => j \in DOMAIN net /\ Unconfirmed(net, j)
  BY CardAnswers DEF CardInv
<1>2. CardShapes' /\ Quiet' = Quiet
  BY DEF CardInv, CardShapes, Quiet
<1> QED BY <1>1, <1>2 DEF CardInv

LEMMA CardServesMe ==
  ASSUME CardInv, Card!ServeMe, ui' = ui PROVE CardInv'
<1>0. (srv > 0) \in BOOLEAN
  OBVIOUS
<1>1. PICK there \in BOOLEAN : there = (srv > 0)
  BY <1>0, Zenon
<1>2. PICK i \in DOMAIN net :
        /\ net[i].kind = "me" /\ net[i].stage = "sent"
        /\ net' = Served(net, i, there) /\ UNCHANGED <<srv, hist>>
  BY <1>1, CardCalls DEF Card!ServeMe, Card!Waiting
<1>3. Answers(net, i, net', there, TRUE)
  BY <1>2, ProperAnswered DEF CardInv, CardNet
<1>4. CardHonest(net'[i])
  BY <1>2, <1>3 DEF Answers, CardHonest
<1> QED BY <1>2, <1>3, <1>4, CardAnswered

LEMMA CardRefuses ==
  ASSUME CardInv, Card!ServeRefusal, ui' = ui PROVE CardInv'
<1>1. PICK i \in DOMAIN net :
        /\ net[i].stage = "sent"
        /\ net' = Refused(net, i, None) /\ UNCHANGED <<srv, hist>>
  BY CardCalls DEF Card!ServeRefusal
<1>2. Answers(net, i, net', None, FALSE)
  BY <1>1, ProperAnswered DEF CardInv, CardNet
<1>3. CardHonest(net'[i])
  BY <1>2 DEF Answers, CardHonest, CardInv, CardNet
<1> QED BY <1>1, <1>2, <1>3, CardAnswered

\* A lost answer: of a creation, nothing is said from then on.
LEMMA CardLoses ==
  ASSUME CardInv, Card!AnswerLost, ui' = ui PROVE CardInv'
<1>1. PICK i \in DOMAIN net :
        /\ net' = Refused(net, i, None) /\ srv' = srv
        /\ hist' = [hist EXCEPT !.lost = @ \/ net[i].kind = "create"]
  BY CardCalls DEF Card!AnswerLost, Card!Coming
<1>2. Answers(net, i, net', None, FALSE)
  BY <1>1, ProperAnswered DEF CardInv, CardNet
<1>3. /\ Proper(net') /\ DOMAIN net' = DOMAIN net
      /\ \A j \in DOMAIN net \ {i} : net'[j] = net[j]
      /\ \A j \in DOMAIN net : net'[j].kind = net[j].kind /\ net'[j].arg = net[j].arg
      /\ net'[i].stage = "answered" /\ net'[i].ok = FALSE
  BY <1>2 DEF Answers
<1>4. CardNet(net')
  BY <1>3 DEF CardInv, CardNet, CardHonest
<1>5. PICK lost \in BOOLEAN : lost = (hist.lost \/ net[i].kind = "create")
  OBVIOUS
<1>6. /\ CardShapes' /\ hist'.lost = lost /\ hist'.twice = hist.twice
      /\ hist'.late = hist.late /\ hist'.unasked = hist.unasked
  <2>1. hist' = [hist EXCEPT !.lost = lost]
    BY <1>1, <1>5
  <2> QED BY <1>1, <2>1 DEF CardInv, CardShapes
<1>7. Quiet' => Quiet /\ net[i].kind # "create"
  BY <1>5, <1>6 DEF Quiet
<1>8. /\ OneCreation(net) => OneCreation(net')
      /\ net[i].kind # "create" /\ Created(net) => Created(net')
      /\ \A j \in DOMAIN net' : Unconfirmed(net', j) => j \in DOMAIN net /\ Unconfirmed(net, j)
  BY <1>3 DEF OneCreation, Creation, Created, Unconfirmed
<1> QED BY <1>1, <1>4, <1>6, <1>7, <1>8 DEF CardInv

LEMMA CardServesCreate ==
  ASSUME CardInv, Card!ServeCreate, ui' = ui PROVE CardInv'
<1>1. PICK i \in DOMAIN net :
        /\ net[i].kind = "create" /\ net[i].stage = "sent"
        /\ srv' = hist.codes + 1
        /\ hist' = [hist EXCEPT !.codes = @ + 1,
                                !.unasked = @ \/ (srv > 0 /\ ~ net[i].arg)]
        /\ net' = Served(net, i, srv')
  BY CardCalls DEF Card!ServeCreate, Card!Waiting
<1>2. PICK code : code = srv'
  OBVIOUS
<1>3. code \in Nat /\ srv \in Nat
  BY <1>1, <1>2 DEF CardInv, CardShapes
<1>4. Answers(net, i, net', code, TRUE)
  BY <1>1, <1>2, ProperAnswered DEF CardInv, CardNet
<1>5. CardHonest(net'[i])
  BY <1>1, <1>3, <1>4 DEF Answers, CardHonest, CardInv, CardNet
<1>6. Creation(net, i)
  BY <1>1 DEF Creation
<1>7. /\ CardNet(net') /\ Created(net')
      /\ OneCreation(net) => OneCreation(net')
      /\ \A j \in DOMAIN net' : Unconfirmed(net', j) => j \in DOMAIN net \ {i} /\ Unconfirmed(net, j)
  BY <1>1, <1>4, <1>5, <1>6, CardAnswers DEF CardInv
<1>8. CardShapes'
  BY <1>1, <1>2, <1>3 DEF CardInv, CardShapes
<1>9. /\ hist'.twice = hist.twice /\ hist'.late = hist.late /\ hist'.lost = hist.lost
      /\ hist'.unasked <=> hist.unasked \/ (srv > 0 /\ ~ net[i].arg)
  BY <1>1 DEF CardInv, CardShapes
<1>10. (Quiet => ~ hist.unasked)'
  <2>1. Unconfirmed(net, i) <=> ~ net[i].arg
    BY <1>1 DEF Unconfirmed, Creation
  <2>2. Quiet /\ ~ net[i].arg => srv = 0
    BY <2>1 DEF CardInv
  <2> QED BY <1>3, <1>9, <2>2 DEF CardInv, Quiet
<1>11. Quiet' => \A j \in DOMAIN net' : ~ Unconfirmed(net', j)
  BY <1>6, <1>7, <1>9 DEF CardInv, Quiet, OneCreation, Unconfirmed
<1>12. (~ hist.twice => OneCreation(net))'
  BY <1>7, <1>9 DEF CardInv
<1> QED BY <1>7, <1>8, <1>10, <1>11, <1>12 DEF CardInv

LEMMA CardLooked ==
  ASSUME CardInv, Card!MeAnswered PROVE CardInv'
<1>1. PICK i \in DOMAIN net :
        /\ net[i].kind = "me"
        /\ ui' = [ui EXCEPT !.status = IF ~ net[i].ok THEN "unknown"
                                       ELSE IF net[i].data THEN "present" ELSE "missing"]
        /\ hist' = [hist EXCEPT !.late = @ \/ (net[i].ok /\ net[i].data # (srv > 0))]
        /\ net' = Settled(net, i) /\ srv' = srv
  BY CardCalls DEF Card!MeAnswered, Card!Answered
<1>2. Settles(net, net', i)
  BY <1>1, ProperSettled DEF CardInv, CardNet
<1>3. CardHonest(net[i])
  BY DEF CardInv, CardNet
<1>4. /\ CardNet(net')
      /\ OneCreation(net) => OneCreation(net')
      /\ \A j \in DOMAIN net' : Unconfirmed(net', j) => \E k \in DOMAIN net : Unconfirmed(net, k)
  BY <1>2, CardSettles DEF CardInv
<1>5. CardShapes'
  <2>1. PICK l \in BOOLEAN : l = (hist.late \/ (net[i].ok /\ net[i].data # (srv > 0)))
    OBVIOUS
  <2>2. hist' = [hist EXCEPT !.late = l]
    BY <1>1, <2>1
  <2> QED BY <1>1, <2>2 DEF CardInv, CardShapes
<1>6. /\ hist'.twice = hist.twice /\ hist'.unasked = hist.unasked /\ hist'.lost = hist.lost
      /\ hist'.late <=> hist.late \/ (net[i].ok /\ net[i].data # (srv > 0))
  BY <1>1 DEF CardInv, CardShapes
<1>7. (Quiet /\ ui.status = "missing" => srv = 0)'
  <2> SUFFICES ASSUME Quiet', ui'.status = "missing" PROVE srv = 0
    BY <1>1
  <2>1. net[i].ok /\ ~ net[i].data
    BY <1>1 DEF CardInv, CardShapes
  <2>2. net[i].data \in BOOLEAN
    BY <1>1, <1>3, <2>1 DEF CardHonest
  <2>3. ~ (net[i].data # (srv > 0))
    BY <1>6, <2>1 DEF Quiet
  <2>4. ~ (srv > 0)
    BY <2>1, <2>2, <2>3
  <2> QED BY <2>4 DEF CardInv, CardShapes
<1> QED BY <1>1, <1>4, <1>5, <1>6, <1>7 DEF CardInv, Quiet

\* A creation is unconfirmed only when the card believes that there is no code.
LEMMA CardCreates ==
  ASSUME CardInv, NEW confirmed \in BOOLEAN, Card!handleCreate(confirmed),
         confirmed \/ ui.status = "missing"
  PROVE  CardInv'
<1>1. /\ ui' = [ui EXCEPT !.confirming = FALSE, !.busy = TRUE, !.error = FALSE]
      /\ net' = Sent(net, "create", confirmed)
      /\ hist' = [hist EXCEPT !.asked = @ + 1, !.twice = @ \/ InFlight(net, "create")]
      /\ srv' = srv
  BY CardCalls DEF Card!handleCreate
<1>2. PICK last : Asks(net, net', last, "create", confirmed)
  BY <1>1, ProperSent DEF CardInv, CardNet
<1>3. /\ CardNet(net')
      /\ ~ InFlight(net, "create") => OneCreation(net')
      /\ Created(net) => Created(net') /\ InFlight(net, "create")
      /\ \A j \in DOMAIN net' :
           Unconfirmed(net', j) => ~ confirmed \/ \E k \in DOMAIN net : Unconfirmed(net, k)
  BY <1>2, CardAsks DEF CardInv
<1>4. CardShapes'
  <2>1. PICK t \in BOOLEAN : t = (hist.twice \/ InFlight(net, "create"))
    OBVIOUS
  <2>2. hist' = [hist EXCEPT !.asked = @ + 1, !.twice = t]
    BY <1>1, <2>1
  <2>3. PICK a \in Nat : a = hist.asked + 1
    BY DEF CardInv, CardShapes
  <2>4. hist' = [hist EXCEPT !.asked = a, !.twice = t] /\ CardShapes
    BY <2>2, <2>3 DEF CardInv
  <2>5. hist' \in [codes : Nat, asked : Nat, twice : BOOLEAN, late : BOOLEAN, lost : BOOLEAN,
             unasked : BOOLEAN]
    BY ONLY <2>4, a \in Nat, t \in BOOLEAN DEF CardShapes
  <2> QED BY <1>1, <2>5 DEF CardInv, CardShapes
<1>5. /\ hist'.twice <=> hist.twice \/ InFlight(net, "create")
      /\ hist'.late = hist.late /\ hist'.unasked = hist.unasked /\ hist'.lost = hist.lost
      /\ ui'.status = ui.status
  BY <1>1 DEF CardInv, CardShapes
<1>6. Quiet' => Quiet /\ ~ InFlight(net, "create") /\ ~ Created(net)
  BY <1>3, <1>5 DEF Quiet
<1>7. Quiet' => \A j \in DOMAIN net' : Unconfirmed(net', j) => srv = 0
  BY <1>3, <1>6 DEF CardInv
<1> QED BY <1>1, <1>3, <1>4, <1>5, <1>6, <1>7 DEF CardInv

LEMMA CardCreated ==
  ASSUME CardInv, Card!CreateAnswered PROVE CardInv'
<1>1. PICK i \in DOMAIN net :
        /\ net[i].kind = "create"
        /\ ui' = IF net[i].ok
                 THEN [ui EXCEPT !.password = FALSE, !.status = "present",
                                 !.code = net[i].data, !.busy = FALSE]
                 ELSE [ui EXCEPT !.error = TRUE, !.busy = FALSE]
        /\ net' = Settled(net, i) /\ srv' = srv /\ hist' = hist
  BY CardCalls DEF Card!CreateAnswered, Card!Answered
<1>2. Settles(net, net', i)
  BY <1>1, ProperSettled DEF CardInv, CardNet
<1>3. CardHonest(net[i])
  BY DEF CardInv, CardNet
<1>4. /\ CardNet(net')
      /\ OneCreation(net) => OneCreation(net')
      /\ Created(net) /\ ~ (Creation(net, i) /\ net[i].ok) => Created(net')
      /\ \A j \in DOMAIN net' : Unconfirmed(net', j) => \E k \in DOMAIN net : Unconfirmed(net, k)
  BY <1>2, CardSettles DEF CardInv
<1>5. CardShapes' /\ (ui'.status = "missing" => ui.status = "missing" /\ ~ net[i].ok)
  <2>1. UNCHANGED <<srv, hist>> /\ CardShapes
    BY <1>1 DEF CardInv
  <2>2. CASE net[i].ok
    <3>1. PICK d \in Nat : d = net[i].data
      BY <1>1, <1>3, <2>2 DEF CardHonest
    <3>2. ui' = [ui EXCEPT !.password = FALSE, !.status = "present", !.code = d, !.busy = FALSE]
      BY <1>1, <2>2, <3>1
    <3> QED BY ONLY <2>1, <3>2 DEF CardShapes
  <2>3. CASE ~ net[i].ok
    <3>1. ui' = [ui EXCEPT !.error = TRUE, !.busy = FALSE]
      BY <1>1, <2>3
    <3> QED BY ONLY <2>1, <2>3, <3>1 DEF CardShapes
  <2> QED BY <2>2, <2>3
<1> QED BY <1>1, <1>4, <1>5 DEF CardInv, Quiet

LEMMA CardNext ==
  ASSUME CardInv, [Card!Next]_(Card!vars) PROVE CardInv'
<1>1. CASE Card!Backend
  BY <1>1, CardServesMe, CardServesCreate, CardRefuses, CardLoses DEF Card!Backend
<1>2. CASE Card!MeAnswered
  BY <1>2, CardLooked
<1>3. CASE Card!CreateAnswered
  BY <1>3, CardCreated
<1>4. ui.confirming \in BOOLEAN
  BY DEF CardInv, CardShapes
<1>5. CASE Card!handlePrimary
  <2>1. CASE Card!replacing(ui.status) /\ ~ ui.confirming
    BY <1>5, <2>1 DEF Card!handlePrimary, CardInv, CardShapes, Quiet
  <2>2. CASE ~ (Card!replacing(ui.status) /\ ~ ui.confirming)
    BY <1>4, <1>5, <2>2, CardCreates DEF Card!handlePrimary, Card!replacing
  <2> QED BY <2>1, <2>2
<1>6. CASE Card!Confirm
  BY <1>6, CardCreates DEF Card!Confirm
<1>7. CASE Card!Type \/ Card!CancelConfirm \/ Card!CodeDone
  <2>1. \/ ui' = [ui EXCEPT !.password = TRUE]
        \/ ui' = [ui EXCEPT !.confirming = FALSE]
        \/ ui' = [ui EXCEPT !.code = 0]
    BY <1>7 DEF Card!Type, Card!CancelConfirm, Card!CodeDone
  <2>2. UNCHANGED <<net, srv, hist>>
    BY <1>7 DEF Card!Type, Card!CancelConfirm, Card!CodeDone
  <2>3. CardShapes
    BY DEF CardInv
  <2>4. CASE ui' = [ui EXCEPT !.password = TRUE]
    BY ONLY CardInv, <2>2, <2>4 DEF CardInv, CardShapes, Quiet
  <2>5. CASE ui' = [ui EXCEPT !.confirming = FALSE]
    BY ONLY CardInv, <2>2, <2>5 DEF CardInv, CardShapes, Quiet
  <2>6. CASE ui' = [ui EXCEPT !.code = 0]
    BY ONLY CardInv, <2>2, <2>6 DEF CardInv, CardShapes, Quiet
  <2> QED BY <2>1, <2>4, <2>5, <2>6
<1>8. CASE UNCHANGED Card!vars
  BY <1>8 DEF Card!vars, CardInv, CardShapes, Quiet
<1> QED BY <1>1, <1>2, <1>3, <1>5, <1>6, <1>7, <1>8
        DEF Card!Next, Card!PressButton, Card!PressEnter

\* A code is replaced only after the dialog was confirmed, unless the look at the
\* account came late, the answer of a creation was lost, so that the card goes on
\* believing there is no code, or two creations were on their way at once: however
\* many creations are asked for.
THEOREM CardReplacesIfConfirmed == Card!Spec => []Card!ReplacedIfConfirmed
<1>1. CardInv => Card!ReplacedIfConfirmed
  BY DEF CardInv, Card!ReplacedIfConfirmed, Quiet
<1> QED BY <1>1, CardInit, CardNext, PTL DEF Card!Spec

-----------------------------------------------------------------------------
(* The members of an event.  A load answered with the version the backend is *)
(* at gives what the backend has.  A change that was made either has its     *)
(* answer on the way, which asks for a load, or was asked about, and a load  *)
(* older than that counts as stale.  A change whose answer is lost leaves    *)
(* the screen stale until the next load.                                     *)

CONSTANTS Guests, MaxInvites, MaxMemberClicks

Members == INSTANCE EventMembers WITH MaxInvitations <- MaxInvites, MaxClicks <- MaxMemberClicks

LEMMA MembersCalls ==
  /\ \A n, i, d : Members!Served(n, i, d) = Served(n, i, d)
  /\ \A n, i, d : Members!Refused(n, i, d) = Refused(n, i, d)
  /\ \A n, i : Members!Settled(n, i) = Settled(n, i)
  /\ \A n, k, a : Members!Sent(n, k, a) = Sent(n, k, a)
BY DEF Members!Served, Served, Members!Refused, Refused, Members!Settled, Settled,
       Members!RemoveAt, RemoveAt, Members!Sent, Sent, Members!Call, Call

MembersUi(u) ==
    /\ u = [isOwner |-> u.isOwner, members |-> u.members, links |-> u.links,
            loading |-> u.loading, creating |-> u.creating, email |-> u.email,
            emailed |-> u.emailed, copied |-> u.copied]
    /\ u.loading \in BOOLEAN

MembersSrv(s) == /\ s = [members |-> s.members, made |-> s.made, live |-> s.live,
                         version |-> s.version]
                 /\ s.version \in Nat

MembersPast(h, version) ==
    /\ h = [invited |-> h.invited, clicks |-> h.clicks, asked |-> h.asked, stale |-> h.stale]
    /\ h.asked \in 0..version /\ h.stale \in BOOLEAN

MemberLists(n, i) == i \in DOMAIN n /\ n[i].kind = "load"
MemberChanged(n, i) == i \in DOMAIN n /\ n[i].kind # "load" /\ n[i].ok

Current(members, links, owner, s) == members = s.members /\ (owner => links = s.live)

MembersNet(n, owner, s) ==
    /\ Proper(n)
    /\ \A i : MemberLists(n, i) /\ n[i].ok =>
          /\ n[i].data.version \in 0..s.version
          /\ n[i].data.version = s.version => Current(n[i].data.members, n[i].data.links, owner, s)

MembersShown(n, u, h, s) ==
    (\A i : ~ MemberChanged(n, i)) =>
        /\ h.asked = s.version
        /\ (\A i : ~ MemberLists(n, i)) /\ ~ u.loading /\ ~ h.stale =>
              Current(u.members, u.links, u.isOwner, s)

MembersInv ==
    /\ MembersUi(ui) /\ MembersSrv(srv) /\ MembersPast(hist, srv.version)
    /\ MembersNet(net, ui.isOwner, srv) /\ MembersShown(net, ui, hist, srv)

LEMMA MembersInit ==
  ASSUME Members!Init PROVE MembersInv
<1>1. PICK e : e = << >>
  OBVIOUS
<1>2. Proper(e) /\ DOMAIN e = {}
  BY <1>1, ProperEmpty
<1>3. net = Sent(e, "load", None)
  BY <1>1, MembersCalls DEF Members!Init
<1>4. PICK last : Asks(e, net, last, "load", None)
  BY <1>2, <1>3, ProperSent
<1>5. MembersUi(ui) /\ ui.loading = TRUE
  BY DEF Members!Init, MembersUi
<1>6. MembersSrv(srv) /\ srv.version = 0 /\ MembersPast(hist, 0) /\ hist.asked = 0
  BY DEF Members!Init, MembersSrv, MembersPast
<1>7. MembersNet(net, ui.isOwner, srv)
  BY <1>2, <1>4 DEF Asks, MembersNet, MemberLists
<1> QED BY <1>5, <1>6, <1>7 DEF MembersInv, MembersShown

\* A load reads what the backend has, a refusal tells nothing.
LEMMA MembersRead ==
  ASSUME MembersInv, Members!Backend, Members!ServeLoad \/ Members!ServeRefusal
  PROVE  MembersInv'
<1>1. UNCHANGED <<ui, srv, hist>> /\ Proper(net)
  BY DEF Members!Backend, Members!ServeLoad, Members!ServeRefusal, MembersInv, MembersNet
<1>2. PICK i, data, ok :
        /\ i \in DOMAIN net /\ Answers(net, i, net', data, ok) /\ ~ net[i].ok
        /\ ok => net[i].kind = "load" /\ data = Members!Lists
  <2>1. CASE Members!ServeLoad
    <3>1. PICK i \in DOMAIN net : /\ net[i].kind = "load" /\ net[i].stage = "sent"
                                  /\ net' = Served(net, i, Members!Lists)
      BY <2>1, MembersCalls DEF Members!ServeLoad, Members!Waiting
    <3> QED BY <1>1, <3>1, ProperAnswered DEF Proper, IsCall
  <2>2. CASE Members!ServeRefusal
    <3>1. PICK i \in DOMAIN net : net[i].stage = "sent" /\ net' = Refused(net, i, None)
      BY <2>2, MembersCalls DEF Members!ServeRefusal
    <3> QED BY <1>1, <3>1, ProperAnswered DEF Proper, IsCall
  <2> QED BY <2>1, <2>2
<1>3. ok => /\ data.version = srv.version /\ srv.version \in 0..srv.version
            /\ Current(data.members, data.links, ui.isOwner, srv)
  BY <1>2 DEF Members!Lists, Current, MembersInv, MembersSrv
<1>4. MembersNet(net', ui.isOwner, srv)
  BY <1>2, <1>3 DEF Answers, MembersInv, MembersNet, MemberLists
<1>5. /\ \A j : MemberLists(net', j) <=> MemberLists(net, j)
      /\ \A j : MemberChanged(net', j) <=> MemberChanged(net, j)
  BY <1>2 DEF Answers, MemberLists, MemberChanged
<1>6. MembersShown(net', ui, hist, srv)
  BY <1>5 DEF MembersInv, MembersShown
<1> QED BY <1>1, <1>4, <1>6 DEF MembersInv

\* After a lost answer the page is to have what the backend is at, and does not
\* show it.
LEMMA MembersLost ==
  ASSUME MembersInv, Members!Backend, Members!AnswerLost PROVE MembersInv'
<1>1. PICK i \in DOMAIN net :
        /\ net' = Refused(net, i, None) /\ UNCHANGED <<ui, srv>>
        /\ net[i].kind = "load" => hist' = hist
        /\ net[i].kind # "load" => hist' = [hist EXCEPT !.asked = srv.version, !.stale = TRUE]
  BY MembersCalls DEF Members!Backend, Members!AnswerLost, Members!Coming
<1>2. Answers(net, i, net', None, FALSE)
  BY <1>1, ProperAnswered DEF MembersInv, MembersNet
<1>3. MembersNet(net', ui.isOwner, srv)
  <2>1. \A j : MemberLists(net', j) /\ net'[j].ok => MemberLists(net, j) /\ net'[j] = net[j]
    BY <1>2 DEF Answers, MemberLists
  <2>2. Proper(net')
    BY <1>2 DEF Answers
  <2>3. MembersNet(net, ui.isOwner, srv)
    BY DEF MembersInv
  <2> QED BY <2>1, <2>2, <2>3 DEF MembersNet
<1>4. /\ \A j : MemberLists(net', j) <=> MemberLists(net, j)
      /\ \A j : MemberChanged(net, j) /\ j # i => MemberChanged(net', j)
  BY <1>2 DEF Answers, MemberLists, MemberChanged
<1>5. CASE net[i].kind = "load"
  <2>1. \A j : MemberChanged(net, j) => MemberChanged(net', j)
    BY <1>4, <1>5 DEF MemberChanged
  <2>2. MembersShown(net', ui, hist, srv)
    BY <1>4, <2>1 DEF MembersInv, MembersShown
  <2> QED BY <1>1, <1>3, <1>5, <2>2 DEF MembersInv
<1>6. CASE net[i].kind # "load"
  <2>1. /\ MembersPast(hist', srv.version) /\ hist'.asked = srv.version
        /\ hist'.stale = TRUE
    <3>1. PICK asked, stale : asked = srv.version /\ stale = TRUE /\ stale \in BOOLEAN
      OBVIOUS
    <3>2. hist' = [hist EXCEPT !.asked = asked, !.stale = stale]
      BY <1>1, <1>6, <3>1
    <3>3. MembersPast(hist, srv.version) /\ srv.version \in Nat
      BY DEF MembersInv, MembersSrv
    <3>4. hist'.asked = asked /\ hist'.stale = stale
      BY <3>2, <3>3 DEF MembersPast
    <3>5. hist' = [invited |-> hist'.invited, clicks |-> hist'.clicks,
                   asked |-> hist'.asked, stale |-> hist'.stale]
      BY <3>2, <3>3 DEF MembersPast
    <3>6. asked \in 0..srv.version
      BY <3>1, <3>3
    <3>7. MembersPast(hist', srv.version)
      BY <3>1, <3>4, <3>5, <3>6 DEF MembersPast
    <3> QED BY <3>1, <3>4, <3>7
  <2> QED BY <1>1, <1>3, <2>1 DEF MembersInv, MembersShown
<1> QED BY <1>5, <1>6

\* A change that is made has its answer on the way.
LEMMA MembersChange ==
  ASSUME MembersInv, Members!Backend,
         \/ Members!ServeInvite \/ Members!ServeRole \/ Members!ServeRemove
         \/ Members!ServeRevoke
  PROVE  MembersInv'
<1>1. UNCHANGED <<ui, hist>> /\ Proper(net)
  BY DEF Members!Backend, Members!ServeInvite, Members!ServeRole, Members!ServeRemove,
         Members!ServeRevoke, MembersInv, MembersNet
<1>2. PICK i, data :
        /\ i \in DOMAIN net /\ net[i].kind # "load" /\ net[i].stage = "sent" /\ net' = Served(net, i, data)
  BY MembersCalls DEF Members!ServeInvite, Members!ServeRole, Members!ServeRemove,
                      Members!ServeRevoke, Members!Waiting
<1>3. PICK version : version = srv.version + 1
  OBVIOUS
<1>4. MembersSrv(srv') /\ srv'.version = version /\ version \in Nat
  <2>1. MembersSrv(srv) /\ version \in Nat
    BY <1>3 DEF MembersInv, MembersSrv
  <2>2. \A x, y : \/ srv' = [srv EXCEPT !.made = x, !.live = y, !.version = version]
                  \/ srv' = [srv EXCEPT !.members = x, !.version = version]
                  \/ srv' = [srv EXCEPT !.live = x, !.version = version]
                  => MembersSrv(srv') /\ srv'.version = version
    BY <2>1 DEF MembersSrv
  <2>3. CASE Members!ServeInvite
    BY <1>3, <2>1, <2>2, <2>3 DEF Members!ServeInvite
  <2>4. CASE Members!ServeRole
    BY <1>3, <2>1, <2>2, <2>4 DEF Members!ServeRole
  <2>5. CASE Members!ServeRemove
    BY <1>3, <2>1, <2>2, <2>5 DEF Members!ServeRemove
  <2>6. CASE Members!ServeRevoke
    BY <1>3, <2>1, <2>2, <2>6 DEF Members!ServeRevoke
  <2> QED BY <2>1, <2>3, <2>4, <2>5, <2>6
<1>5. MembersPast(hist', srv'.version)
  BY <1>1, <1>3, <1>4 DEF MembersInv, MembersSrv, MembersPast
<1>6. Answers(net, i, net', data, TRUE)
  BY <1>1, <1>2, ProperAnswered
<1>7. MembersNet(net', ui.isOwner, srv')
  <2>1. \A j : MemberLists(net', j) /\ net'[j].ok => MemberLists(net, j) /\ net[j] = net'[j]
    BY <1>2, <1>6 DEF Answers, MemberLists
  <2>2. \A j : MemberLists(net, j) /\ net[j].ok =>
           net[j].data.version \in 0..srv'.version /\ net[j].data.version # srv'.version
    BY <1>3, <1>4 DEF MembersInv, MembersNet, MembersSrv
  <2> QED BY <1>6, <2>1, <2>2 DEF Answers, MembersNet
<1>8. MemberChanged(net', i)
  BY <1>2, <1>6 DEF Answers, MemberChanged
<1> QED BY <1>1, <1>4, <1>5, <1>7, <1>8 DEF MembersInv, MembersShown

\* A call that leaves is no load's answer and no change that was made.
LEMMA MembersAsk ==
  ASSUME MembersInv, NEW u, NEW h, NEW kind, NEW arg, NEW m, m = Sent(net, kind, arg),
         u.members = ui.members, u.links = ui.links, u.isOwner = ui.isOwner,
         u.loading = ui.loading, h.asked = hist.asked, h.stale = hist.stale
  PROVE  MembersNet(m, ui.isOwner, srv) /\ MembersShown(m, u, h, srv)
<1>1. PICK last : Asks(net, m, last, kind, arg)
  BY ProperSent DEF MembersInv, MembersNet
<1> QED BY <1>1 DEF Asks, MembersInv, MembersNet, MembersShown, MemberLists, MemberChanged

LEMMA MembersClicks ==
  ASSUME MembersInv,
         \/ Members!TypeEmail \/ Members!handleCreateInvite \/ Members!handleChangeRole
         \/ Members!handleRemove \/ Members!handleRevoke \/ Members!copyLink
         \/ Members!MarksGone
  PROVE  MembersInv'
<1>1. MembersUi(ui) /\ MembersPast(hist, srv.version)
  BY DEF MembersInv
<1>2. CASE Members!TypeEmail \/ Members!copyLink \/ Members!MarksGone
  <2>1. UNCHANGED <<net, srv, hist>>
    BY <1>2 DEF Members!TypeEmail, Members!copyLink, Members!MarksGone
  <2>2. /\ MembersUi(ui') /\ ui'.members = ui.members /\ ui'.links = ui.links
        /\ ui'.isOwner = ui.isOwner /\ ui'.loading = ui.loading
    <3>1. CASE Members!TypeEmail
      BY <1>1, <3>1 DEF Members!TypeEmail, MembersUi
    <3>2. CASE Members!copyLink
      BY <1>1, <3>2 DEF Members!copyLink, MembersUi
    <3>3. CASE Members!MarksGone
      BY <1>1, <3>3 DEF Members!MarksGone, MembersUi
    <3> QED BY <1>2, <3>1, <3>2, <3>3
  <2> QED BY <2>1, <2>2 DEF MembersInv, MembersShown
<1>3. CASE \/ Members!handleCreateInvite \/ Members!handleChangeRole \/ Members!handleRemove
           \/ Members!handleRevoke
  <2>1. PICK kind, arg : net' = Sent(net, kind, arg) /\ srv' = srv
    BY <1>3, MembersCalls DEF Members!handleCreateInvite, Members!handleChangeRole,
                              Members!handleRemove, Members!handleRevoke
  <2>2. /\ MembersUi(ui') /\ ui'.members = ui.members /\ ui'.links = ui.links
        /\ ui'.isOwner = ui.isOwner /\ ui'.loading = ui.loading
    <3>1. ui' = ui \/ ui' = [ui EXCEPT !.creating = TRUE]
      BY <1>3 DEF Members!handleCreateInvite, Members!handleChangeRole,
                  Members!handleRemove, Members!handleRevoke
    <3> QED BY <1>1, <3>1 DEF MembersUi
  <2>3. /\ MembersPast(hist', srv.version) /\ hist'.asked = hist.asked
        /\ hist'.stale = hist.stale
    <3>1. PICK invited, clicks : invited = hist.invited + 1 /\ clicks = hist.clicks + 1
      OBVIOUS
    <3>2. hist' = [hist EXCEPT !.invited = invited] \/ hist' = [hist EXCEPT !.clicks = clicks]
      BY <1>3, <3>1 DEF Members!handleCreateInvite, Members!handleChangeRole,
                        Members!handleRemove, Members!handleRevoke, Members!Clicked
    <3> QED BY <1>1, <3>2 DEF MembersPast
  <2>4. MembersNet(net', ui.isOwner, srv) /\ MembersShown(net', ui', hist', srv)
    BY <2>1, <2>2, <2>3, MembersAsk
  <2> QED BY <2>1, <2>2, <2>3, <2>4 DEF MembersInv
<1> QED BY <1>2, <1>3

\* What a call that is over leaves behind.
LEMMA MembersSettled ==
  ASSUME NEW n, NEW owner, NEW s, MembersNet(n, owner, s), NEW i \in DOMAIN n,
         NEW m, m = Settled(n, i)
  PROVE  /\ MembersNet(m, owner, s)
         /\ \A j : j # i => /\ MemberLists(n, j) => \E k : MemberLists(m, k)
                            /\ MemberChanged(n, j) => \E k : MemberChanged(m, k)
<1>1. Settles(n, m, i)
  BY ProperSettled DEF MembersNet
<1> QED BY <1>1 DEF Settles, MembersNet, MemberLists, MemberChanged

LEMMA MembersLoaded ==
  ASSUME MembersInv, Members!LoadAnswered PROVE MembersInv'
<1>1. PICK i, after, creating :
        /\ i \in DOMAIN net /\ net[i].kind = "load" /\ net' = Settled(net, i) /\ srv' = srv
        /\ after = [ui EXCEPT !.creating = creating]
        /\ net[i].ok =>
              /\ ui' = [after EXCEPT !.members = net[i].data.members,
                                     !.links = net[i].data.links, !.loading = FALSE]
              /\ hist' = [hist EXCEPT !.stale = net[i].data.version < hist.asked]
        /\ ~ net[i].ok => ui' = after /\ hist' = [hist EXCEPT !.stale = TRUE]
  <2>1. PICK i \in DOMAIN net :
        /\ net[i].kind = "load" /\ net' = Settled(net, i) /\ srv' = srv
        /\ ui' = (IF net[i].ok
                  THEN [(IF net[i].arg = "invite" THEN [ui EXCEPT !.creating = FALSE] ELSE ui)
                          EXCEPT !.members = net[i].data.members,
                                 !.links = net[i].data.links, !.loading = FALSE]
                  ELSE IF net[i].arg = "invite" THEN [ui EXCEPT !.creating = FALSE] ELSE ui)
        /\ hist' = [hist EXCEPT !.stale = IF net[i].ok THEN net[i].data.version < hist.asked
                                          ELSE TRUE]
    BY MembersCalls DEF Members!LoadAnswered, Members!Answered
  <2>2. PICK creating : creating = IF net[i].arg = "invite" THEN FALSE ELSE ui.creating
    OBVIOUS
  <2>3. PICK after : after = [ui EXCEPT !.creating = creating]
    OBVIOUS
  <2>4. after = IF net[i].arg = "invite" THEN [ui EXCEPT !.creating = FALSE] ELSE ui
    BY <2>2, <2>3 DEF MembersInv, MembersUi
  <2> QED BY <2>1, <2>3, <2>4
<1>2. /\ MembersNet(net', ui.isOwner, srv)
      /\ \A j : /\ MemberChanged(net, j) => \E k : MemberChanged(net', k)
                /\ j # i /\ MemberLists(net, j) => \E k : MemberLists(net', k)
  BY <1>1, MembersSettled DEF MembersInv, MemberChanged
<1>3. /\ MembersUi(after) /\ after.members = ui.members /\ after.links = ui.links
      /\ after.isOwner = ui.isOwner /\ after.loading = ui.loading
  BY <1>1 DEF MembersInv, MembersUi
<1>4. CASE net[i].ok
  <2>1. PICK members, links : members = net[i].data.members /\ links = net[i].data.links
    OBVIOUS
  <2>7. /\ net[i].data.version \in 0..srv.version
        /\ net[i].data.version = srv.version =>
              Current(net[i].data.members, net[i].data.links, ui.isOwner, srv)
    BY <1>1, <1>4 DEF MembersInv, MembersNet, MemberLists
  <2>6. PICK stale \in BOOLEAN : stale <=> (net[i].data.version < hist.asked)
    OBVIOUS
  <2>8. hist' = [hist EXCEPT !.stale = stale]
    BY <1>1, <1>4, <2>6
  <2>2. /\ MembersUi(ui') /\ ui'.members = members /\ ui'.links = links
        /\ ui'.isOwner = ui.isOwner
    BY <1>1, <1>3, <1>4, <2>1 DEF MembersUi
  <2>3. /\ MembersPast(hist', srv.version) /\ hist'.asked = hist.asked /\ hist'.stale = stale
    BY <2>8 DEF MembersInv, MembersPast
  <2>4. ASSUME \A k : ~ MemberChanged(net', k), ~ stale
        PROVE  Current(members, links, ui.isOwner, srv)
    <3>1. hist.asked = srv.version
      BY <1>2, <2>4 DEF MembersInv, MembersShown
    <3>2. ~ (net[i].data.version < srv.version)
      BY <2>4, <2>6, <3>1
    <3>3. net[i].data.version = srv.version
      BY <2>7, <3>2 DEF MembersInv, MembersSrv
    <3> QED BY <2>1, <2>7, <3>3
  <2>5. (\A k : ~ MemberChanged(net', k)) => hist.asked = srv.version
    BY <1>2 DEF MembersInv, MembersShown
  <2> QED BY <1>1, <1>2, <2>2, <2>3, <2>4, <2>5 DEF MembersInv, MembersShown
<1>5. CASE ~ net[i].ok
  <2>1. MembersPast(hist', srv.version) /\ hist'.asked = hist.asked /\ hist'.stale = TRUE
    BY <1>1, <1>5 DEF MembersInv, MembersPast
  <2>2. (\A k : ~ MemberChanged(net', k)) => hist.asked = srv.version
    BY <1>2 DEF MembersInv, MembersShown
  <2> QED BY <1>1, <1>2, <1>3, <1>5, <2>1, <2>2 DEF MembersInv, MembersShown
<1> QED BY <1>4, <1>5

\* What was asked about is what the backend is at; what was refused changed nothing.
LEMMA MembersAnswered ==
  ASSUME MembersInv, Members!InviteAnswered \/ Members!ChangeAnswered PROVE MembersInv'
<1>1. PICK i \in DOMAIN net : \E kind :
        /\ net[i].kind # "load" /\ srv' = srv
        /\ MembersUi(ui') /\ ui'.members = ui.members /\ ui'.links = ui.links
        /\ ui'.isOwner = ui.isOwner /\ ui'.loading = ui.loading
        /\ net[i].ok => /\ net' = Sent(Settled(net, i), "load", kind)
                        /\ hist' = [hist EXCEPT !.asked = srv.version]
        /\ ~ net[i].ok => net' = Settled(net, i) /\ hist' = hist
  <2>1. CASE Members!InviteAnswered
    <3>1. PICK i \in DOMAIN net :
            /\ net[i].kind = "invite" /\ srv' = srv
            /\ IF net[i].ok
               THEN /\ ui' = [ui EXCEPT !.email = FALSE,
                                        !.emailed = IF net[i].arg THEN net[i].data ELSE @]
                    /\ net' = Sent(Settled(net, i), "load", "invite")
                    /\ hist' = [hist EXCEPT !.asked = srv.version]
               ELSE /\ ui' = [ui EXCEPT !.creating = FALSE]
                    /\ net' = Settled(net, i) /\ hist' = hist
      BY <2>1, MembersCalls DEF Members!InviteAnswered, Members!Answered, Members!Reload
    <3>2. PICK emailed : emailed = IF net[i].arg THEN net[i].data ELSE ui.emailed
      OBVIOUS
    <3>3. \/ ui' = [ui EXCEPT !.email = FALSE, !.emailed = emailed]
          \/ ui' = [ui EXCEPT !.creating = FALSE]
      BY <3>1, <3>2
    <3>4. /\ MembersUi(ui') /\ ui'.members = ui.members /\ ui'.links = ui.links
          /\ ui'.isOwner = ui.isOwner /\ ui'.loading = ui.loading
      BY <3>3 DEF MembersInv, MembersUi
    <3> QED BY <3>1, <3>4
  <2>2. CASE Members!ChangeAnswered
    BY <2>2, MembersCalls DEF Members!ChangeAnswered, Members!Answered, Members!Reload,
                              Members!Changes, MembersInv
  <2> QED BY <2>1, <2>2
<1>2. PICK m : m = Settled(net, i)
  OBVIOUS
<1>7. PICK kind : net[i].ok => net' = Sent(m, "load", kind)
  BY <1>1, <1>2
<1>3. /\ MembersNet(m, ui.isOwner, srv)
      /\ \A j : /\ j # i /\ MemberChanged(net, j) => \E k : MemberChanged(m, k)
                /\ MemberLists(net, j) => \E k : MemberLists(m, k)
  BY <1>1, <1>2, MembersSettled DEF MembersInv, MemberLists
<1>5. CASE net[i].ok
  <2>1. PICK last : Asks(m, net', last, "load", kind)
    BY <1>3, <1>5, <1>7, ProperSent DEF MembersNet
  <2>2. MembersNet(net', ui.isOwner, srv) /\ MemberLists(net', last)
    BY <1>3, <2>1 DEF Asks, MembersNet, MemberLists
  <2>3. MembersPast(hist', srv.version) /\ hist'.asked = srv.version
    BY <1>1, <1>5 DEF MembersInv, MembersSrv, MembersPast
  <2> QED BY <1>1, <2>2, <2>3 DEF MembersInv, MembersShown
<1>6. CASE ~ net[i].ok
  <2>1. /\ \A j : MemberChanged(net, j) => \E k : MemberChanged(m, k)
        /\ \A j : MemberLists(net, j) => \E k : MemberLists(m, k)
    BY <1>3, <1>6 DEF MemberChanged
  <2>2. MembersShown(m, ui', hist, srv)
    BY <1>1, <2>1 DEF MembersInv, MembersShown
  <2> QED BY <1>1, <1>2, <1>3, <1>6, <2>2 DEF MembersInv
<1> QED BY <1>5, <1>6

LEMMA MembersNext ==
  ASSUME MembersInv, [Members!Next]_(Members!vars) PROVE MembersInv'
<1>1. CASE UNCHANGED Members!vars
  BY <1>1 DEF Members!vars, MembersInv
<1>2. CASE Members!Backend
  BY <1>2, MembersRead, MembersLost, MembersChange DEF Members!Backend
<1> QED BY <1>1, <1>2, MembersLoaded, MembersClicks, MembersAnswered DEF Members!Next

\* With nothing on its way the owner sees the members and the live links the backend
\* has, however many changes were made at once and in whatever order their loads came
\* back, unless the last load failed or was overtaken, or the answer of a change made
\* since was lost.
THEOREM MembersAreCurrent == Members!Spec => []Members!ListIsCurrent
<1>1. MembersInv => Members!ListIsCurrent
  <2>1. net = << >> => DOMAIN net = {}
    BY ProperEmpty
  <2> QED BY <2>1 DEF MembersInv, MembersShown, MemberLists, MemberChanged, Current,
                      Members!ListIsCurrent
<1> QED BY <1>1, MembersInit, MembersNext, PTL DEF Members!Spec

-----------------------------------------------------------------------------
(* The notifications.  Unless an earlier load came last, the load that was   *)
(* sent last is for the tab and the page on screen, and once it has come,    *)
(* without a failure, so is what is shown.                                   *)

CONSTANTS NoticeKinds, PageSize, MaxNoteClicks

Notes == INSTANCE NotificationsPage WITH
    KindOf <- NoticeKinds, PAGE_SIZE <- PageSize, MaxClicks <- MaxNoteClicks

LEMMA NotesCalls ==
  /\ \A n, i, d : Notes!Served(n, i, d) = Served(n, i, d)
  /\ \A n, i, d : Notes!Refused(n, i, d) = Refused(n, i, d)
  /\ \A n, i : Notes!Settled(n, i) = Settled(n, i)
  /\ \A n, k, a : Notes!Sent(n, k, a) = Sent(n, k, a)
  /\ \A n, k : Notes!Unheard(n, k) = Unheard(n, k)
BY DEF Notes!Served, Served, Notes!Refused, Refused, Notes!Settled, Settled,
       Notes!RemoveAt, RemoveAt, Notes!Sent, Sent, Notes!Call, Call, Notes!Unheard, Unheard

HeardPage(n, i) == i \in DOMAIN n /\ n[i].kind = "page" /\ n[i].here

\* The last of the loads on their way is for this.
LastAsked(n, arg) ==
    \A i : HeardPage(n, i) /\ (\A j : HeardPage(n, j) => j <= i) => n[i].arg = arg

NotesUi(u) ==
    /\ u = [here |-> u.here, tab |-> u.tab, page |-> u.page, shown |-> u.shown,
            total |-> u.total, loading |-> u.loading, error |-> u.error]
    /\ IsFiniteSet(DOMAIN u.shown)

NotesPast(h) == /\ h = [clicks |-> h.clicks, unsure |-> h.unsure, overtaken |-> h.overtaken,
                        of |-> h.of]
                /\ h.overtaken \in BOOLEAN

NotesSrv(s) == s = [last |-> s.last, read |-> s.read] /\ s.last \in Nat

NotesNet(n) ==
    /\ Proper(n)
    /\ \A i \in DOMAIN n : n[i].kind = "page" /\ n[i].ok => IsFiniteSet(DOMAIN n[i].data.list)

AsAsked(n, u, h) ==
    u.here /\ ~ h.overtaken =>
        /\ LastAsked(n, Notes!LoadArg(u))
        /\ (\A i : ~ HeardPage(n, i)) /\ ~ u.error => h.of = Notes!LoadArg(u)

NotesInv == /\ NotesUi(ui) /\ NotesPast(hist) /\ NotesSrv(srv) /\ NotesNet(net)
            /\ AsAsked(net, ui, hist)

LEMMA NotesSent ==
  ASSUME NEW n, NotesNet(n), NEW kind, NEW arg, NEW m, m = Sent(n, kind, arg)
  PROVE  /\ NotesNet(m) /\ m # n
         /\ kind = "page" => LastAsked(m, arg) /\ \E i : HeardPage(m, i)
         /\ kind # "page" => \A i : /\ HeardPage(m, i) <=> HeardPage(n, i)
                                    /\ HeardPage(m, i) => m[i] = n[i]
<1>1. PICK last : Asks(n, m, last, kind, arg)
  BY ProperSent DEF NotesNet
<1>2. NotesNet(m) /\ m # n
  BY <1>1 DEF Asks, NotesNet
<1>3. Len(n) \in Nat /\ DOMAIN n = 1..Len(n) /\ last \in Nat /\ Len(n) < last
  <2>1. Len(n) \in Nat /\ DOMAIN n = 1..Len(n)
    BY LenProperties DEF NotesNet, Proper
  <2>2. DOMAIN m = 1..Len(m) /\ Len(m) \in Nat
    BY <1>2, LenProperties DEF NotesNet, Proper
  <2> QED BY <1>1, <2>1, <2>2 DEF Asks
<1>4. kind = "page" => LastAsked(m, arg) /\ HeardPage(m, last)
  <2> SUFFICES ASSUME kind = "page" PROVE LastAsked(m, arg) /\ HeardPage(m, last)
    OBVIOUS
  <2>1. HeardPage(m, last) /\ m[last].arg = arg
    BY <1>1 DEF Asks, HeardPage
  <2>2. \A i : HeardPage(m, i) => i \in Nat /\ i <= last
    BY <1>1, <1>3 DEF Asks, HeardPage
  <2>3. \A i : HeardPage(m, i) /\ last <= i => i = last
    BY <1>3, <2>2
  <2> QED BY <2>1, <2>3 DEF LastAsked
<1>5. kind # "page" => \A i : /\ HeardPage(m, i) <=> HeardPage(n, i)
                              /\ HeardPage(m, i) => m[i] = n[i]
  BY <1>1 DEF Asks, HeardPage
<1> QED BY <1>2, <1>4, <1>5

\* The loads are those they were.
LEMMA NotesSame ==
  ASSUME NEW n, NEW m,
         \A i : /\ HeardPage(m, i) <=> HeardPage(n, i)
                /\ HeardPage(m, i) => m[i].arg = n[i].arg,
         NEW u, NEW v, NEW h, NEW g, AsAsked(n, u, h),
         v.here => u.here, Notes!LoadArg(v) = Notes!LoadArg(u), u.error => v.error,
         g.overtaken = h.overtaken, g.of = h.of
  PROVE  AsAsked(m, v, g)
BY DEF AsAsked, LastAsked

\* A load that no load was sent before leaves the last of the others the last.
LEMMA NotesSettled ==
  ASSUME NEW n, NotesNet(n), NEW i \in DOMAIN n, NEW m, m = Settled(n, i),
         NEW arg, LastAsked(n, arg), \A j : HeardPage(n, j) /\ j < i => ~ HeardPage(n, i)
  PROVE  LastAsked(m, arg)
<1>1. Settles(n, m, i)
  BY ProperSettled DEF NotesNet
<1>2. /\ DOMAIN n \subseteq Nat /\ DOMAIN m \subseteq Nat
  <2>1. Len(n) \in Nat /\ DOMAIN n = 1..Len(n)
    BY LenProperties DEF NotesNet, Proper
  <2>2. DOMAIN m = 1..Len(m) /\ Len(m) \in Nat
    BY <1>1, LenProperties DEF Settles, Proper
  <2> QED BY <2>1, <2>2
<1> SUFFICES ASSUME NEW j, HeardPage(m, j), \A k : HeardPage(m, k) => k <= j
             PROVE  m[j].arg = arg
  BY DEF LastAsked
<1>3. PICK l : l = From(i, j)
  OBVIOUS
<1>4. HeardPage(n, l) /\ l # i /\ m[j] = n[l] /\ l \in Nat /\ i \in Nat /\ j \in Nat
  BY <1>1, <1>2, <1>3 DEF Settles, HeardPage
<1>5. ASSUME NEW k, HeardPage(n, k) PROVE k <= l
  <2>1. CASE k = i
    BY <1>4, <1>5, <2>1
  <2>2. CASE k # i
    <3>1. k \in DOMAIN n \ {i} /\ k \in Nat
      BY <1>2, <1>5, <2>2 DEF HeardPage
    <3>2. PICK p \in DOMAIN m : From(i, p) = k /\ m[p] = n[k]
      BY <1>1, <3>1 DEF Settles
    <3>3. p <= j /\ p \in Nat
      BY <1>2, <1>5, <3>2 DEF HeardPage
    <3> QED BY <1>3, <1>4, <3>2, <3>3 DEF From
  <2> QED BY <2>1, <2>2
<1> QED BY <1>4, <1>5 DEF LastAsked

LEMMA NotesOver ==
  ASSUME NEW n, NotesNet(n), NEW i \in DOMAIN n, NEW m, m = Settled(n, i)
  PROVE  /\ NotesNet(m)
         /\ \A j : HeardPage(n, j) /\ j # i => \E k : HeardPage(m, k)
<1>1. Settles(n, m, i)
  BY ProperSettled DEF NotesNet
<1> QED BY <1>1 DEF Settles, NotesNet, HeardPage

\* Another call is over.
LEMMA NotesQuiet ==
  ASSUME NotesInv, NEW i \in DOMAIN net, ~ HeardPage(net, i), net' = Settled(net, i),
         NEW v, NEW g, v.here = ui.here, Notes!LoadArg(v) = Notes!LoadArg(ui), ui.error => v.error,
         g.overtaken = hist.overtaken, g.of = hist.of
  PROVE  NotesNet(net') /\ AsAsked(net', v, g)
<1>1. NotesNet(net')
  BY NotesOver DEF NotesInv
<1>2. (\A k : ~ HeardPage(net', k)) => \A j : ~ HeardPage(net, j)
  BY NotesOver DEF NotesInv
<1>3. \A arg : LastAsked(net, arg) => LastAsked(net', arg)
  BY NotesSettled DEF NotesInv
<1> QED BY <1>1, <1>2, <1>3 DEF NotesInv, AsAsked

LEMMA NotesInit ==
  ASSUME Notes!Init PROVE NotesInv
<1>1. PICK e, f, arg : e = << >> /\ f = Notes!Fresh /\ arg = Notes!LoadArg(Notes!Fresh)
  OBVIOUS
<1>2. NotesNet(e)
  BY <1>1, ProperEmpty DEF NotesNet
<1>3. net = Sent(e, "page", arg) /\ ui = f
  BY <1>1, NotesCalls DEF Notes!Init
<1>4. NotesNet(net) /\ LastAsked(net, arg) /\ \E i : HeardPage(net, i)
  BY <1>2, <1>3, NotesSent
<1>5. NotesUi(ui) /\ Notes!LoadArg(ui) = arg
  <2>1. DOMAIN << >> = {} /\ IsFiniteSet({})
    BY ProperEmpty, FS_EmptySet
  <2> QED BY <1>1, <1>3, <2>1 DEF Notes!Fresh, NotesUi
<1>6. NotesPast(hist) /\ NotesSrv(srv)
  BY DEF Notes!Init, NotesPast, NotesSrv
<1> QED BY <1>4, <1>5, <1>6 DEF NotesInv, AsAsked

LEMMA NotesBackend ==
  ASSUME NotesInv, Notes!Backend PROVE NotesInv'
<1>1. ui' = ui /\ Proper(net) /\ NotesSrv(srv) /\ NotesPast(hist)
  BY DEF Notes!Backend, NotesInv, NotesNet
<1>2. PICK i, data, ok :
        /\ i \in DOMAIN net /\ Answers(net, i, net', data, ok)
        /\ ok /\ net[i].kind = "page" => IsFiniteSet(DOMAIN data.list)
  <2>1. CASE Notes!ServePage
    <3>1. PICK i \in DOMAIN net : /\ net[i].stage = "sent"
                                  /\ net' = Served(net, i, Notes!ListOf(net[i].arg))
      BY <2>1, NotesCalls DEF Notes!ServePage, Notes!Waiting
    <3>2. PICK data : data = Notes!ListOf(net[i].arg)
      OBVIOUS
    <3>3. DOMAIN data.list \subseteq 1..srv.last
      <4>1. PICK S : /\ S \subseteq 1..srv.last
                     /\ data = Notes!Answer(S, srv.read, net[i].arg.page, PageSize)
        BY <3>2 DEF Notes!ListOf
      <4>2. DOMAIN data.list = Notes!PageOf(S, net[i].arg.page, PageSize)
        BY <4>1 DEF Notes!Answer
      <4>3. Notes!PageOf(S, net[i].arg.page, PageSize) \subseteq S
        BY DEF Notes!PageOf
      <4> QED BY <4>1, <4>2, <4>3
    <3>4. IsFiniteSet(DOMAIN data.list)
      BY <1>1, <3>3, FS_Interval, FS_Subset DEF NotesSrv
    <3>5. Answers(net, i, net', data, TRUE)
      BY <1>1, <3>1, <3>2, ProperAnswered
    <3> QED BY <3>4, <3>5
  <2>2. CASE Notes!ServeMark \/ Notes!ServeMarkAll
    <3>1. PICK i \in DOMAIN net : /\ net[i].stage = "sent" /\ net[i].kind # "page"
                                  /\ net' = Served(net, i, None)
      BY <2>2, NotesCalls DEF Notes!ServeMark, Notes!ServeMarkAll, Notes!Waiting
    <3> QED BY <1>1, <3>1, ProperAnswered
  <2>3. CASE Notes!ServeRefusal
    <3>1. PICK i \in DOMAIN net : net' = Refused(net, i, None)
      BY <2>3, NotesCalls DEF Notes!ServeRefusal
    <3> QED BY <1>1, <3>1, ProperAnswered
  <2> QED BY <2>1, <2>2, <2>3 DEF Notes!Backend
<1>3. NotesNet(net')
  BY <1>2 DEF Answers, NotesInv, NotesNet
<1>4. NotesSrv(srv')
  <2>1. PICK read : srv' = srv \/ srv' = [srv EXCEPT !.read = read]
    BY DEF Notes!Backend, Notes!ServePage, Notes!ServeMark, Notes!ServeMarkAll, Notes!ServeRefusal
  <2> QED BY <1>1, <2>1 DEF NotesSrv
<1>5. NotesPast(hist') /\ hist'.overtaken = hist.overtaken /\ hist'.of = hist.of
  <2>1. PICK unsure : hist' = hist \/ hist' = [hist EXCEPT !.unsure = unsure]
    BY DEF Notes!Backend, Notes!ServePage, Notes!ServeMark, Notes!ServeMarkAll, Notes!ServeRefusal
  <2> QED BY <1>1, <2>1 DEF NotesPast
<1>6. \A j : /\ HeardPage(net', j) <=> HeardPage(net, j)
             /\ HeardPage(net', j) => net'[j].arg = net[j].arg
  BY <1>2 DEF Answers, HeardPage
<1>7. AsAsked(net', ui, hist')
  BY <1>5, <1>6, NotesSame DEF NotesInv
<1> QED BY <1>1, <1>3, <1>4, <1>5, <1>7 DEF NotesInv

LEMMA NotesOthers ==
  ASSUME NotesInv, Notes!Arrive \/ Notes!ReadElsewhere PROVE NotesInv'
<1>1. UNCHANGED <<ui, net, hist>>
  BY DEF Notes!Arrive, Notes!ReadElsewhere
<1>2. PICK last, read : /\ last = srv.last + 1
                        /\ srv' = [srv EXCEPT !.last = last] \/ srv' = [srv EXCEPT !.read = read]
  BY DEF Notes!Arrive, Notes!ReadElsewhere
<1>3. NotesSrv(srv')
  BY <1>2 DEF NotesInv, NotesSrv
<1> QED BY <1>1, <1>3 DEF NotesInv

LEMMA NotesOpen ==
  ASSUME NotesInv, Notes!Open PROVE NotesInv'
<1>1. PICK f, arg, clicks : f = Notes!Fresh /\ arg = Notes!LoadArg(f) /\ clicks = hist.clicks + 1
  OBVIOUS
<1>2. /\ ui' = f /\ net' = Sent(net, "page", arg) /\ srv' = srv
      /\ hist' = [hist EXCEPT !.overtaken = FALSE, !.clicks = clicks]
  BY <1>1, NotesCalls DEF Notes!Open
<1>3. NotesNet(net') /\ LastAsked(net', arg) /\ \E i : HeardPage(net', i)
  BY <1>2, NotesSent DEF NotesInv
<1>4. NotesUi(f)
  <2>1. DOMAIN << >> = {} /\ IsFiniteSet({})
    BY ProperEmpty, FS_EmptySet
  <2> QED BY <1>1, <2>1 DEF Notes!Fresh, NotesUi
<1>5. NotesPast(hist')
  BY <1>2 DEF NotesInv, NotesPast
<1> QED BY <1>1, <1>2, <1>3, <1>4, <1>5 DEF NotesInv, AsAsked

\* A tab or a page that was turned to is asked for.
LEMMA NotesTurned ==
  ASSUME NotesInv, Notes!switchTab \/ Notes!PageBack \/ Notes!PageOn PROVE NotesInv'
<1>1. PICK tab, page : Notes!Turned(tab, page)
  BY DEF Notes!switchTab, Notes!PageBack, Notes!PageOn
<1>2. PICK u, clicks : u = [ui EXCEPT !.tab = tab, !.page = page] /\ clicks = hist.clicks + 1
  OBVIOUS
<1>3. PICK arg : arg = Notes!LoadArg(u)
  OBVIOUS
<1>4. /\ net' = IF arg = Notes!LoadArg(ui) THEN net ELSE Sent(net, "page", arg)
      /\ ui' = IF net' = net THEN u ELSE [u EXCEPT !.loading = TRUE, !.error = FALSE]
      /\ hist' = [hist EXCEPT !.clicks = clicks] /\ srv' = srv
  BY <1>1, <1>2, <1>3, NotesCalls DEF Notes!Turned, Notes!Reloaded, Notes!Clicked
<1>5. NotesUi(u) /\ u.here = ui.here /\ u.error = ui.error
  BY <1>2 DEF NotesInv, NotesUi
<1>6. NotesPast(hist') /\ hist'.overtaken = hist.overtaken /\ hist'.of = hist.of
  BY <1>4 DEF NotesInv, NotesPast
<1>7. CASE arg = Notes!LoadArg(ui)
  BY <1>3, <1>4, <1>5, <1>6, <1>7, NotesSame DEF NotesInv
<1>8. CASE arg # Notes!LoadArg(ui)
  <2>1. NotesNet(net') /\ net' # net /\ LastAsked(net', arg) /\ \E i : HeardPage(net', i)
    BY <1>4, <1>8, NotesSent DEF NotesInv
  <2>2. ui' = [u EXCEPT !.loading = TRUE, !.error = FALSE]
    BY <1>4, <2>1
  <2>3. NotesUi(ui') /\ Notes!LoadArg(ui') = arg
    BY <1>3, <1>5, <2>2 DEF NotesUi, Notes!LoadArg
  <2> QED BY <1>4, <1>6, <2>1, <2>3 DEF NotesInv, AsAsked
<1> QED BY <1>7, <1>8

\* The load that comes last unless it overtook another is what is shown.
LEMMA NotesLoaded ==
  ASSUME NotesInv, Notes!PageAnswered PROVE NotesInv'
<1>1. PICK i \in Notes!Answered(net, "page") : Notes!PageAnswered!(i)
  BY DEF Notes!PageAnswered
<1>2. i \in DOMAIN net /\ net[i].kind = "page" /\ net' = Settled(net, i) /\ srv' = srv
  BY <1>1, NotesCalls DEF Notes!Answered
<1>3. CASE ~ net[i].here
  <2>1. UNCHANGED <<ui, hist>> /\ ~ HeardPage(net, i)
    BY <1>1, <1>3 DEF HeardPage
  <2>2. NotesNet(net') /\ AsAsked(net', ui, hist)
    BY <1>2, <2>1, NotesQuiet
  <2> QED BY <1>2, <2>1, <2>2 DEF NotesInv
<1>4. CASE net[i].here
  <2>1. PICK shown, total, of, arg :
          /\ shown = net[i].data.list /\ total = net[i].data.total /\ arg = net[i].arg
          /\ of = IF net[i].ok THEN arg ELSE hist.of
    OBVIOUS
  <2>2. PICK yes \in BOOLEAN :
          yes = (hist.overtaken \/ \E j \in 1..(i - 1) : net[j].kind = "page" /\ net[j].here)
    OBVIOUS
  <2>3. /\ ui' = IF net[i].ok THEN [ui EXCEPT !.loading = FALSE, !.shown = shown, !.total = total]
                 ELSE [ui EXCEPT !.loading = FALSE, !.error = TRUE]
        /\ hist' = [hist EXCEPT !.of = of, !.overtaken = yes]
    BY <1>1, <1>4, <2>1, <2>2
  <2>4. /\ NotesUi(ui') /\ ui'.here = ui.here /\ Notes!LoadArg(ui') = Notes!LoadArg(ui)
        /\ ~ net[i].ok => ui'.error = TRUE
    <3>1. net[i].ok => IsFiniteSet(DOMAIN shown)
      BY <1>2, <2>1 DEF NotesInv, NotesNet
    <3> QED BY <2>3, <3>1 DEF NotesInv, NotesUi, Notes!LoadArg
  <2>5. NotesPast(hist') /\ hist'.overtaken = yes /\ hist'.of = of
    BY <2>3 DEF NotesInv, NotesPast
  <2>6. ASSUME ui.here, ~ yes
        PROVE  /\ LastAsked(net', Notes!LoadArg(ui))
               /\ (\A k : ~ HeardPage(net', k)) => arg = Notes!LoadArg(ui)
    <3>1. ~ hist.overtaken /\ LastAsked(net, Notes!LoadArg(ui))
      BY <2>2, <2>6 DEF NotesInv, AsAsked
    <3>2. DOMAIN net \subseteq Nat \ {0}
      BY LenProperties DEF NotesInv, NotesNet, Proper
    <3>3. ASSUME NEW j, HeardPage(net, j) PROVE ~ (j < i)
      <4>1. j \in Nat \ {0} /\ i \in Nat
        BY <1>2, <3>2, <3>3 DEF HeardPage
      <4>2. j < i => j \in 1..(i - 1)
        BY <4>1
      <4> QED BY <2>2, <2>6, <3>3, <4>2 DEF HeardPage
    <3>4. LastAsked(net', Notes!LoadArg(ui))
      BY <1>2, <3>1, <3>3, NotesSettled DEF NotesInv
    <3>5. ASSUME \A k : ~ HeardPage(net', k) PROVE arg = Notes!LoadArg(ui)
      <4>1. \A j : HeardPage(net, j) => j = i
        BY <1>2, <3>5, NotesOver DEF NotesInv
      <4>2. HeardPage(net, i) /\ i <= i
        BY <1>2, <1>4, <3>2 DEF HeardPage
      <4> QED BY <2>1, <3>1, <4>1, <4>2 DEF LastAsked
    <3> QED BY <3>4, <3>5
  <2>7. AsAsked(net', ui', hist')
    BY <2>1, <2>4, <2>5, <2>6 DEF AsAsked
  <2>8. NotesNet(net')
    BY <1>2, NotesOver DEF NotesInv
  <2> QED BY <1>2, <2>4, <2>5, <2>7, <2>8 DEF NotesInv
<1> QED BY <1>3, <1>4

\* Marks join the calls in flight.
LEMMA NotesMarks ==
  ASSUME NEW n, NotesNet(n), NEW ids, IsFiniteSet(ids), NEW m, m = Notes!Marks(n, ids)
  PROVE  /\ NotesNet(m)
         /\ \A i : /\ HeardPage(m, i) <=> HeardPage(n, i)
                   /\ HeardPage(m, i) => m[i] = n[i]
<1>1. PICK k, s : /\ k = Cardinality(ids)
                  /\ s = [j \in 1..k |-> Call("mark", Notes!Nth(ids, j))]
  OBVIOUS
<1>2. k \in Nat
  BY <1>1, FS_CardinalityType
<1>3. m = n \o s
  BY <1>1 DEF Notes!Marks, Notes!Cardinality, Cardinality, Notes!Call, Call
<1>4. \A j \in 1..k : IsCall(s[j]) /\ s[j].kind = "mark"
  BY <1>1 DEF IsCall, Call
<1>5. s \in [1..k -> SetOf(s)]
  BY <1>1 DEF SetOf
<1>6. Joined(n, m, s, k)
  <2>1. Proper(n) /\ \A j \in 1..k : IsCall(s[j])
    BY <1>4 DEF NotesNet
  <2> QED BY ONLY <1>2, <1>3, <1>5, <2>1, ProperJoined
<1> HIDE <1>1
<1> QED BY <1>4, <1>6 DEF Joined, NotesNet, HeardPage

\* A row that was clicked is marked; unless it stays, the page's loads are lost.
LEMMA NotesClicked ==
  ASSUME NotesInv, Notes!handleClick PROVE NotesInv'
<1>1. PICK item \in Notes!Rows :
        /\ ui' = [ui EXCEPT !.shown = Notes!Marked(@, Notes!unreadIds(item, ui.shown)),
                            !.here = Notes!StaysHere(item)]
        /\ net' = Notes!Marks(IF ui'.here THEN net ELSE Notes!Unheard(net, {"page", "all"}),
                              Notes!unreadIds(item, ui.shown))
        /\ srv' = srv /\ hist' = [hist EXCEPT !.clicks = @ + 1]
  BY DEF Notes!handleClick, Notes!Clicked
<1>2. PICK ids, here, clicks : /\ ids = Notes!unreadIds(item, ui.shown)
                               /\ here = Notes!StaysHere(item) /\ clicks = hist.clicks + 1
  OBVIOUS
<1>3. PICK shown : shown = Notes!Marked(ui.shown, ids)
  OBVIOUS
<1>4. /\ ui' = [ui EXCEPT !.shown = shown, !.here = here]
      /\ hist' = [hist EXCEPT !.clicks = clicks]
  BY <1>1, <1>2, <1>3
<1>5. IsFiniteSet(ids) /\ DOMAIN shown = DOMAIN ui.shown /\ IsFiniteSet(DOMAIN ui.shown)
  <2>1. item \in Notes!groupNotifications(ui.shown)
    BY <1>1 DEF Notes!Rows
  <2>2. item \subseteq DOMAIN ui.shown
    BY <2>1 DEF Notes!groupNotifications
  <2>3. ids \subseteq DOMAIN ui.shown
    BY <1>2, <2>2 DEF Notes!unreadIds
  <2>4. DOMAIN shown = DOMAIN ui.shown
    BY <1>3 DEF Notes!Marked
  <2> QED BY <2>3, <2>4, FS_Subset DEF NotesInv, NotesUi
<1>6. NotesUi(ui') /\ ui'.here = here /\ Notes!LoadArg(ui') = Notes!LoadArg(ui) /\ ui'.error = ui.error
  BY <1>4, <1>5 DEF NotesInv, NotesUi, Notes!LoadArg
<1>7. NotesPast(hist') /\ hist'.overtaken = hist.overtaken /\ hist'.of = hist.of
  BY <1>4 DEF NotesInv, NotesPast
<1>8. CASE ~ here
  <2>1. PICK n : n = Unheard(net, {"page", "all"})
    OBVIOUS
  <2>2. net' = Notes!Marks(n, ids)
    BY <1>1, <1>2, <1>6, <1>8, <2>1, NotesCalls
  <2>3. Silences(net, n, {"page", "all"})
    BY <2>1, ProperUnheard DEF NotesInv, NotesNet
  <2>4. NotesNet(n)
    BY <2>3 DEF Silences, NotesInv, NotesNet
  <2>5. NotesNet(net')
    BY <1>5, <2>2, <2>4, NotesMarks
  <2> QED BY <1>1, <1>6, <1>7, <1>8, <2>5 DEF NotesInv, AsAsked
<1>9. CASE here
  <2>1. net' = Notes!Marks(net, ids)
    BY <1>1, <1>2, <1>6, <1>9
  <2>2. /\ NotesNet(net')
        /\ \A i : /\ HeardPage(net', i) <=> HeardPage(net, i)
                  /\ HeardPage(net', i) => net'[i] = net[i]
    BY <1>5, <2>1, NotesMarks DEF NotesInv
  <2>3. ui.here
    BY <1>1 DEF Notes!Rows
  <2>4. AsAsked(net', ui', hist')
    BY <1>6, <1>7, <2>2, <2>3, NotesSame DEF NotesInv
  <2> QED BY <1>1, <1>6, <1>7, <2>2, <2>4 DEF NotesInv
<1> QED BY <1>8, <1>9

LEMMA NotesMarking ==
  ASSUME NotesInv, Notes!handleMarkAll \/ Notes!MarkAnswered \/ Notes!MarkAllAnswered
  PROVE  NotesInv'
<1>1. CASE Notes!handleMarkAll
  <2>1. PICK clicks : clicks = hist.clicks + 1
    OBVIOUS
  <2>2. /\ UNCHANGED <<ui, srv>> /\ hist' = [hist EXCEPT !.clicks = clicks]
        /\ net' = Sent(net, "all", None)
    BY <1>1, <2>1, NotesCalls DEF Notes!handleMarkAll, Notes!Clicked
  <2>3. NotesPast(hist') /\ hist'.overtaken = hist.overtaken /\ hist'.of = hist.of
    BY <2>2 DEF NotesInv, NotesPast
  <2>4. /\ NotesNet(net')
        /\ \A i : /\ HeardPage(net', i) <=> HeardPage(net, i)
                  /\ HeardPage(net', i) => net'[i] = net[i]
    BY <2>2, NotesSent DEF NotesInv
  <2>5. AsAsked(net', ui, hist')
    BY <2>3, <2>4, NotesSame DEF NotesInv
  <2> QED BY <2>2, <2>3, <2>4, <2>5 DEF NotesInv
<1>2. CASE Notes!MarkAnswered
  <2>1. PICK i \in DOMAIN net : /\ net[i].kind = "mark" /\ net' = Settled(net, i)
                                /\ UNCHANGED <<ui, srv, hist>>
    BY <1>2, NotesCalls DEF Notes!MarkAnswered, Notes!Answered
  <2>2. NotesNet(net') /\ AsAsked(net', ui, hist)
    BY <2>1, NotesQuiet DEF HeardPage
  <2> QED BY <2>1, <2>2 DEF NotesInv
<1>3. CASE Notes!MarkAllAnswered
  <2>1. PICK i \in Notes!Answered(net, "all") : Notes!MarkAllAnswered!(i)
    BY <1>3 DEF Notes!MarkAllAnswered
  <2>2. i \in DOMAIN net /\ ~ HeardPage(net, i) /\ net' = Settled(net, i) /\ srv' = srv
    BY <2>1, NotesCalls DEF Notes!Answered, HeardPage
  <2>3. PICK shown, unsure : /\ shown = Notes!Marked(ui.shown, Notes!Ids)
                             /\ unsure = hist.unsure \cup (DOMAIN ui.shown \ srv.read)
    OBVIOUS
  <2>4. \/ UNCHANGED <<ui, hist>>
        \/ ui' = [ui EXCEPT !.shown = shown] /\ hist' = [hist EXCEPT !.unsure = unsure]
        \/ ui' = [ui EXCEPT !.error = TRUE] /\ hist' = hist
    BY <2>1, <2>3
  <2>5. DOMAIN shown = DOMAIN ui.shown
    BY <2>3 DEF Notes!Marked
  <2>6. /\ NotesUi(ui') /\ ui'.here = ui.here /\ Notes!LoadArg(ui') = Notes!LoadArg(ui)
        /\ ui.error => ui'.error
    BY <2>4, <2>5 DEF NotesInv, NotesUi, Notes!LoadArg
  <2>7. NotesPast(hist') /\ hist'.overtaken = hist.overtaken /\ hist'.of = hist.of
    BY <2>4 DEF NotesInv, NotesPast
  <2>8. NotesNet(net') /\ AsAsked(net', ui', hist')
    BY <2>2, <2>6, <2>7, NotesQuiet
  <2> QED BY <2>2, <2>6, <2>7, <2>8 DEF NotesInv
<1> QED BY <1>1, <1>2, <1>3

LEMMA NotesNext ==
  ASSUME NotesInv, [Notes!Next]_(Notes!vars) PROVE NotesInv'
<1>1. CASE UNCHANGED Notes!vars
  BY <1>1 DEF Notes!vars, NotesInv
<1> QED BY <1>1, NotesBackend, NotesOthers, NotesOpen, NotesTurned, NotesLoaded, NotesClicked,
           NotesMarking DEF Notes!Next

\* However fast the tabs and the pages are turned, what is shown once the loads are
\* over is the tab and the page that the screen names, unless an earlier load came last.
THEOREM PageIsOfItsTab == Notes!Spec => []Notes!PageShowsItsTab
<1>1. NotesInv => Notes!PageShowsItsTab
  BY DEF NotesInv, AsAsked, HeardPage, Notes!PageShowsItsTab, Notes!InFlight
<1> QED BY <1>1, NotesInit, NotesNext, PTL DEF Notes!Spec

\* Rows that look read.  The backend has them read, a mark for them is on its way, or
\* it is known that the mark may not hold.
MarkOf(n, x) == \E i \in DOMAIN n : n[i].kind = "mark" /\ n[i].arg = x

ReadNet(n, s, h) ==
    \A i \in DOMAIN n :
      /\ n[i].kind = "page" /\ n[i].ok =>
            /\ DOMAIN n[i].data.list \subseteq 1..s.last
            /\ \A x \in DOMAIN n[i].data.list : n[i].data.list[x] => x \in s.read
      /\ n[i].kind = "mark" =>
            /\ n[i].arg \in 1..s.last
            /\ n[i].stage = "answered" => n[i].arg \in s.read \cup h.unsure

ReadShown(n, shown, s, h) ==
    /\ DOMAIN shown \subseteq 1..s.last
    /\ \A x \in DOMAIN shown : shown[x] => x \in s.read \cup h.unsure \/ MarkOf(n, x)

ReadInv ==
    /\ NotesInv /\ ReadNet(net, srv, hist) /\ ReadShown(net, ui.shown, srv, hist)
    /\ srv.read \subseteq 1..srv.last

\* What is known to be read, or not to be known, stays so.
Grows(s, h, t, g) == /\ 1..s.last \subseteq 1..t.last /\ s.read \subseteq t.read
                     /\ h.unsure \subseteq g.unsure /\ t.read \subseteq 1..t.last

LEMMA ReadKept ==
  ASSUME ReadInv, NotesInv', ReadNet(net', srv', hist'), Grows(srv, hist, srv', hist'),
         ui'.shown = ui.shown,
         \A x : MarkOf(net, x) => MarkOf(net', x) \/ x \in srv'.read \cup hist'.unsure
  PROVE  ReadInv'
<1>1. ReadShown(net', ui.shown, srv', hist')
  BY DEF ReadInv, ReadShown, Grows
<1> QED BY <1>1 DEF ReadInv, Grows

LEMMA ReadSent ==
  ASSUME ReadInv, NEW kind, kind # "mark", NEW arg, NEW m, m = Sent(net, kind, arg)
  PROVE  ReadNet(m, srv, hist) /\ \A x : MarkOf(net, x) => MarkOf(m, x)
<1>1. PICK last : Asks(net, m, last, kind, arg)
  BY ProperSent DEF ReadInv, NotesInv, NotesNet
<1>2. ReadNet(m, srv, hist)
  BY <1>1 DEF Asks, ReadInv, ReadNet
<1>3. \A x : MarkOf(net, x) => MarkOf(m, x)
  BY <1>1 DEF Asks, MarkOf
<1> QED BY <1>2, <1>3

\* A mark is over once the backend has it or has refused it.
LEMMA ReadSettled ==
  ASSUME ReadInv, NEW i \in DOMAIN net, net[i].stage = "answered", NEW m, m = Settled(net, i)
  PROVE  /\ ReadNet(m, srv, hist)
         /\ \A x : MarkOf(net, x) => MarkOf(m, x) \/ x \in srv.read \cup hist.unsure
<1>1. Settles(net, m, i)
  BY ProperSettled DEF ReadInv, NotesInv, NotesNet
<1>2. ReadNet(m, srv, hist)
  BY <1>1 DEF Settles, ReadInv, ReadNet
<1>3. ASSUME NEW x, MarkOf(net, x), ~ MarkOf(m, x) PROVE x \in srv.read \cup hist.unsure
  <2>1. PICK j \in DOMAIN net : net[j].kind = "mark" /\ net[j].arg = x
    BY <1>3 DEF MarkOf
  <2>2. j = i
    BY <1>1, <1>3, <2>1 DEF Settles, MarkOf
  <2> QED BY <2>1, <2>2 DEF ReadInv, ReadNet
<1> QED BY <1>2, <1>3

LEMMA ReadEach ==
  ASSUME ReadInv, NEW n, n = net \/ n = Unheard(net, {"page", "all"}),
         NEW ids, ids \subseteq 1..srv.last, NEW m, m = Notes!Marks(n, ids)
  PROVE  /\ ReadNet(m, srv, hist)
         /\ \A x : MarkOf(net, x) \/ x \in ids => MarkOf(m, x)
<1>1. /\ Proper(n) /\ ReadNet(n, srv, hist)
      /\ \A x : MarkOf(net, x) => MarkOf(n, x)
  <2>1. CASE n = net
    BY <2>1 DEF ReadInv, NotesInv, NotesNet
  <2>2. CASE n = Unheard(net, {"page", "all"})
    <3>1. Silences(net, n, {"page", "all"})
      BY <2>2, ProperUnheard DEF ReadInv, NotesInv, NotesNet
    <3>2. ReadNet(n, srv, hist)
      BY <3>1 DEF Silences, ReadInv, ReadNet
    <3>3. \A x : MarkOf(net, x) => MarkOf(n, x)
      BY <3>1 DEF Silences, MarkOf
    <3> QED BY <3>1, <3>2, <3>3 DEF Silences
  <2> QED BY <2>1, <2>2
<1>2. srv.last \in Nat /\ ids \in SUBSET (1..srv.last)
  BY DEF ReadInv, NotesInv, NotesSrv
<1>3. m = Each(n, "mark", ids)
  BY DEF Notes!Marks, Each, Notes!Nth, Nth, Notes!Cardinality, Cardinality, Notes!Call, Call
<1>4. AsksEach(n, m, "mark", ids)
  BY <1>1, <1>2, <1>3, ProperEach
<1>5. ReadNet(m, srv, hist)
  <2> SUFFICES ASSUME NEW i \in DOMAIN m
               PROVE  ReadNet(m, srv, hist)!(i)
    BY DEF ReadNet
  <2>1. CASE i \in DOMAIN n
    BY <1>1, <1>4, <2>1 DEF AsksEach, ReadNet
  <2>2. CASE i \notin DOMAIN n
    BY <1>2, <1>4, <2>2 DEF AsksEach
  <2> QED BY <2>1, <2>2
<1>6. \A x : MarkOf(n, x) => MarkOf(m, x)
  BY <1>4 DEF AsksEach, MarkOf
<1>7. \A x \in ids : MarkOf(m, x)
  BY <1>4 DEF AsksEach, MarkOf
<1> QED BY <1>1, <1>5, <1>6, <1>7

LEMMA ReadInit ==
  ASSUME Notes!Init PROVE ReadInv
<1>1. PICK e, f, arg : e = << >> /\ f = Notes!Fresh /\ arg = Notes!LoadArg(Notes!Fresh)
  OBVIOUS
<1>2. Proper(e) /\ DOMAIN e = {}
  BY <1>1, ProperEmpty
<1>3. net = Sent(e, "page", arg) /\ ui = f /\ srv.read = {}
  BY <1>1, NotesCalls DEF Notes!Init
<1>4. PICK last : Asks(e, net, last, "page", arg)
  BY <1>2, <1>3, ProperSent
<1>5. ReadNet(net, srv, hist)
  BY <1>2, <1>4 DEF Asks, ReadNet
<1>6. ui.shown = e
  BY <1>1, <1>3 DEF Notes!Fresh
<1>7. ReadShown(net, e, srv, hist)
  BY <1>2 DEF ReadShown
<1> QED BY <1>3, <1>5, <1>6, <1>7, NotesInit DEF ReadInv

LEMMA ReadBackend ==
  ASSUME ReadInv, Notes!Backend PROVE ReadInv'
<1>1. /\ ui' = ui /\ NotesInv' /\ Proper(net) /\ srv.last \in Nat
      /\ srv = [last |-> srv.last, read |-> srv.read]
      /\ hist = [clicks |-> hist.clicks, unsure |-> hist.unsure, overtaken |-> hist.overtaken,
                 of |-> hist.of]
  BY NotesBackend DEF Notes!Backend, ReadInv, NotesInv, NotesNet, NotesSrv, NotesPast
<1>2. CASE Notes!ServePage
  <2>1. PICK i \in DOMAIN net :
          /\ net[i].stage = "sent" /\ net[i].kind = "page" /\ UNCHANGED <<srv, hist>>
          /\ net' = Served(net, i, Notes!ListOf(net[i].arg))
    BY <1>2, NotesCalls DEF Notes!ServePage, Notes!Waiting
  <2>2. PICK data : data = Notes!ListOf(net[i].arg)
    OBVIOUS
  <2>3. /\ DOMAIN data.list \subseteq 1..srv.last
        /\ \A x \in DOMAIN data.list : data.list[x] => x \in srv.read
    <3>1. PICK S : /\ S \subseteq 1..srv.last
                   /\ data = Notes!Answer(S, srv.read, net[i].arg.page, PageSize)
      BY <2>2 DEF Notes!ListOf
    <3>2. data.list = [x \in Notes!PageOf(S, net[i].arg.page, PageSize) |-> x \in srv.read]
      BY <3>1 DEF Notes!Answer
    <3>3. Notes!PageOf(S, net[i].arg.page, PageSize) \subseteq S
      BY DEF Notes!PageOf
    <3> QED BY <3>1, <3>2, <3>3
  <2>4. Answers(net, i, net', data, TRUE)
    BY <1>1, <2>1, <2>2, ProperAnswered
  <2>5. ReadNet(net', srv, hist)
    BY <2>1, <2>3, <2>4 DEF Answers, ReadInv, ReadNet
  <2>6. \A x : MarkOf(net, x) => MarkOf(net', x)
    BY <2>4 DEF Answers, MarkOf
  <2> QED BY <1>1, <2>1, <2>5, <2>6, ReadKept DEF ReadInv, Grows
<1>3. CASE Notes!ServeMark
  <2>1. PICK i \in DOMAIN net :
          /\ net[i].stage = "sent" /\ net[i].kind = "mark" /\ hist' = hist
          /\ srv' = [srv EXCEPT !.read = @ \cup {net[i].arg}] /\ net' = Served(net, i, None)
    BY <1>3, NotesCalls DEF Notes!ServeMark, Notes!Waiting
  <2>2. Answers(net, i, net', None, TRUE)
    BY <1>1, <2>1, ProperAnswered
  <2>3. srv'.last = srv.last /\ srv'.read = srv.read \cup {net[i].arg}
    BY <1>1, <2>1
  <2>4. ReadNet(net', srv', hist)
    BY <2>1, <2>2, <2>3 DEF Answers, ReadInv, ReadNet
  <2>5. \A x : MarkOf(net, x) => MarkOf(net', x)
    BY <2>2 DEF Answers, MarkOf
  <2>6. Grows(srv, hist, srv', hist')
    BY <2>1, <2>3 DEF ReadInv, ReadNet, Grows
  <2> QED BY <1>1, <2>1, <2>4, <2>5, <2>6, ReadKept
<1>4. CASE Notes!ServeMarkAll
  <2>1. PICK i \in DOMAIN net :
          /\ net[i].stage = "sent" /\ net[i].kind = "all" /\ hist' = hist
          /\ srv' = [srv EXCEPT !.read = 1..srv.last] /\ net' = Served(net, i, None)
    BY <1>4, NotesCalls DEF Notes!ServeMarkAll, Notes!Waiting
  <2>2. Answers(net, i, net', None, TRUE)
    BY <1>1, <2>1, ProperAnswered
  <2>3. srv'.last = srv.last /\ srv'.read = 1..srv.last /\ srv.read \subseteq 1..srv.last
    BY <1>1, <2>1 DEF ReadInv
  <2>4. ReadNet(net', srv', hist)
    BY <2>1, <2>2, <2>3 DEF Answers, ReadInv, ReadNet
  <2>5. \A x : MarkOf(net, x) => MarkOf(net', x)
    BY <2>2 DEF Answers, MarkOf
  <2>6. Grows(srv, hist, srv', hist')
    BY <2>1, <2>3 DEF Grows
  <2> QED BY <1>1, <2>1, <2>4, <2>5, <2>6, ReadKept
<1>5. CASE Notes!ServeRefusal
  <2>1. PICK i \in DOMAIN net :
          /\ srv' = srv /\ net' = Refused(net, i, None)
          /\ hist' = IF net[i].kind = "mark"
                     THEN [hist EXCEPT !.unsure = @ \cup {net[i].arg}] ELSE hist
    BY <1>5, NotesCalls DEF Notes!ServeRefusal
  <2>2. Answers(net, i, net', None, FALSE)
    BY <1>1, <2>1, ProperAnswered
  <2>3. /\ hist.unsure \subseteq hist'.unsure
        /\ net[i].kind = "mark" => net[i].arg \in hist'.unsure
    BY <1>1, <2>1
  <2>4. ReadNet(net', srv, hist')
    BY <2>1, <2>2, <2>3 DEF Answers, ReadInv, ReadNet
  <2>5. \A x : MarkOf(net, x) => MarkOf(net', x)
    BY <2>2 DEF Answers, MarkOf
  <2>6. Grows(srv, hist, srv', hist')
    BY <2>1, <2>3 DEF ReadInv, Grows
  <2> QED BY <1>1, <2>1, <2>4, <2>5, <2>6, ReadKept
<1> QED BY <1>2, <1>3, <1>4, <1>5 DEF Notes!Backend

LEMMA ReadOthers ==
  ASSUME ReadInv, Notes!Arrive \/ Notes!ReadElsewhere PROVE ReadInv'
<1>1. NotesInv' /\ UNCHANGED <<ui, net, hist>>
  BY NotesOthers DEF ReadInv, Notes!Arrive, Notes!ReadElsewhere
<1>2. srv.last \in Nat /\ srv = [last |-> srv.last, read |-> srv.read]
  BY DEF ReadInv, NotesInv, NotesSrv
<1>3. PICK last, more : /\ last = srv.last + 1 /\ more \subseteq 1..srv.last
                        /\ \/ srv' = [srv EXCEPT !.last = last]
                           \/ srv' = [srv EXCEPT !.read = srv.read \cup more]
  <2>1. CASE Notes!Arrive
    BY <2>1 DEF Notes!Arrive
  <2>2. CASE Notes!ReadElsewhere
    <3>1. PICK x \in 1..srv.last : srv' = [srv EXCEPT !.read = srv.read \cup {x}]
      BY <2>2 DEF Notes!ReadElsewhere
    <3> QED BY <3>1
  <2> QED BY <2>1, <2>2
<1>4. Grows(srv, hist, srv', hist)
  BY <1>2, <1>3 DEF ReadInv, Grows
<1>5. ReadNet(net, srv', hist)
  BY <1>4 DEF ReadInv, ReadNet, Grows
<1> QED BY <1>1, <1>4, <1>5, ReadKept

LEMMA ReadTurned ==
  ASSUME ReadInv, Notes!switchTab \/ Notes!PageBack \/ Notes!PageOn PROVE ReadInv'
<1>1. NotesInv'
  BY NotesTurned DEF ReadInv
<1>2. PICK tab, page : Notes!Turned(tab, page)
  BY DEF Notes!switchTab, Notes!PageBack, Notes!PageOn
<1>3. PICK u, clicks : u = [ui EXCEPT !.tab = tab, !.page = page] /\ clicks = hist.clicks + 1
  OBVIOUS
<1>4. /\ \/ net' = net \/ net' = Sent(net, "page", Notes!LoadArg(u))
      /\ ui' = u \/ ui' = [u EXCEPT !.loading = TRUE, !.error = FALSE]
      /\ hist' = [hist EXCEPT !.clicks = clicks] /\ srv' = srv
  BY <1>2, <1>3, NotesCalls DEF Notes!Turned, Notes!Reloaded, Notes!Clicked
<1>5. ui'.shown = ui.shown
  BY <1>3, <1>4 DEF ReadInv, NotesInv, NotesUi
<1>6. hist'.unsure = hist.unsure
  BY <1>4 DEF ReadInv, NotesInv, NotesPast
<1>7. ReadNet(net', srv, hist) /\ \A x : MarkOf(net, x) => MarkOf(net', x)
  BY <1>4, ReadSent DEF ReadInv
<1>8. ReadNet(net', srv, hist') /\ Grows(srv, hist, srv, hist')
  BY <1>6, <1>7 DEF ReadInv, ReadNet, Grows
<1> QED BY <1>1, <1>4, <1>5, <1>7, <1>8, ReadKept

LEMMA ReadOpen ==
  ASSUME ReadInv, Notes!Open PROVE ReadInv'
<1>1. NotesInv'
  BY NotesOpen DEF ReadInv
<1>2. PICK e, f, arg, clicks : /\ e = << >> /\ f = Notes!Fresh /\ arg = Notes!LoadArg(f)
                               /\ clicks = hist.clicks + 1
  OBVIOUS
<1>3. /\ ui' = f /\ net' = Sent(net, "page", arg) /\ srv' = srv
      /\ hist' = [hist EXCEPT !.overtaken = FALSE, !.clicks = clicks]
  BY <1>2, NotesCalls DEF Notes!Open
<1>4. hist'.unsure = hist.unsure
  BY <1>3 DEF ReadInv, NotesInv, NotesPast
<1>5. ReadNet(net', srv, hist)
  BY <1>3, ReadSent
<1>6. ReadNet(net', srv, hist')
  BY <1>4, <1>5 DEF ReadNet
<1>7. ui'.shown = e /\ DOMAIN e = {}
  BY <1>2, <1>3, ProperEmpty DEF Notes!Fresh
<1>8. ReadShown(net', e, srv, hist')
  BY <1>7 DEF ReadShown
<1> QED BY <1>1, <1>3, <1>6, <1>7, <1>8 DEF ReadInv

LEMMA ReadLoaded ==
  ASSUME ReadInv, Notes!PageAnswered PROVE ReadInv'
<1>1. NotesInv'
  BY NotesLoaded DEF ReadInv
<1>2. PICK i \in Notes!Answered(net, "page") : Notes!PageAnswered!(i)
  BY DEF Notes!PageAnswered
<1>3. /\ i \in DOMAIN net /\ net[i].kind = "page" /\ net[i].stage = "answered"
      /\ net' = Settled(net, i) /\ srv' = srv
  BY <1>2, NotesCalls DEF Notes!Answered
<1>4. PICK shown, total, of, yes :
        /\ shown = net[i].data.list /\ total = net[i].data.total
        /\ of = IF net[i].ok THEN net[i].arg ELSE hist.of
        /\ yes = (hist.overtaken \/ \E j \in 1..(i - 1) : net[j].kind = "page" /\ net[j].here)
  OBVIOUS
<1>5. /\ \/ ui' = ui \/ ui' = [ui EXCEPT !.loading = FALSE, !.error = TRUE]
         \/ /\ ui' = [ui EXCEPT !.loading = FALSE, !.shown = shown, !.total = total]
            /\ net[i].ok
      /\ hist' = hist \/ hist' = [hist EXCEPT !.of = of, !.overtaken = yes]
  BY <1>2, <1>4
<1>6. hist'.unsure = hist.unsure
  BY <1>5 DEF ReadInv, NotesInv, NotesPast
<1>7. /\ ReadNet(net', srv, hist)
      /\ \A x : MarkOf(net, x) => MarkOf(net', x) \/ x \in srv.read \cup hist.unsure
  BY <1>3, ReadSettled
<1>8. ReadNet(net', srv, hist') /\ Grows(srv, hist, srv, hist')
  BY <1>6, <1>7 DEF ReadInv, ReadNet, Grows
<1>9. ui'.shown = ui.shown \/ (ui'.shown = shown /\ net[i].ok)
  BY <1>5 DEF ReadInv, NotesInv, NotesUi
<1>10. CASE ui'.shown = ui.shown
  BY <1>1, <1>3, <1>6, <1>7, <1>8, <1>10, ReadKept
<1>11. CASE ui'.shown = shown /\ net[i].ok
  <2>1. DOMAIN shown \subseteq 1..srv.last /\ \A x \in DOMAIN shown : shown[x] => x \in srv.read
    BY <1>3, <1>4, <1>11 DEF ReadInv, ReadNet
  <2>2. ReadShown(net', shown, srv, hist')
    BY <2>1 DEF ReadShown
  <2> QED BY <1>1, <1>3, <1>8, <1>11, <2>2 DEF ReadInv
<1> QED BY <1>9, <1>10, <1>11

\* What a click shows as read it sends marks for.
LEMMA ReadClicked ==
  ASSUME ReadInv, Notes!handleClick PROVE ReadInv'
<1>1. NotesInv'
  BY NotesClicked DEF ReadInv
<1>2. PICK item \in Notes!Rows :
        /\ ui' = [ui EXCEPT !.shown = Notes!Marked(@, Notes!unreadIds(item, ui.shown)),
                            !.here = Notes!StaysHere(item)]
        /\ net' = Notes!Marks(IF ui'.here THEN net ELSE Notes!Unheard(net, {"page", "all"}),
                              Notes!unreadIds(item, ui.shown))
        /\ srv' = srv /\ hist' = [hist EXCEPT !.clicks = @ + 1]
  BY DEF Notes!handleClick, Notes!Clicked
<1>3. PICK ids, here, clicks : /\ ids = Notes!unreadIds(item, ui.shown)
                               /\ here = Notes!StaysHere(item) /\ clicks = hist.clicks + 1
  OBVIOUS
<1>4. PICK shown : shown = Notes!Marked(ui.shown, ids)
  OBVIOUS
<1>5. PICK n : /\ n = net \/ n = Unheard(net, {"page", "all"})
               /\ net' = Notes!Marks(n, ids)
  BY <1>2, <1>3, NotesCalls
<1>6. /\ ui' = [ui EXCEPT !.shown = shown, !.here = here]
      /\ hist' = [hist EXCEPT !.clicks = clicks]
  BY <1>2, <1>3, <1>4
<1>7. ui'.shown = shown /\ hist'.unsure = hist.unsure
  BY <1>6 DEF ReadInv, NotesInv, NotesUi, NotesPast
<1>8. ids \subseteq DOMAIN ui.shown
  <2>1. item \in Notes!groupNotifications(ui.shown)
    BY <1>2 DEF Notes!Rows
  <2>2. item \subseteq DOMAIN ui.shown
    BY <2>1 DEF Notes!groupNotifications
  <2> QED BY <1>3, <2>2 DEF Notes!unreadIds
<1>9. /\ DOMAIN shown = DOMAIN ui.shown
      /\ \A x \in DOMAIN shown : shown[x] => ui.shown[x] \/ x \in ids
  BY <1>4 DEF Notes!Marked
<1>10. ids \subseteq 1..srv.last
  BY <1>8 DEF ReadInv, ReadShown
<1>11. /\ ReadNet(net', srv, hist)
       /\ \A x : MarkOf(net, x) \/ x \in ids => MarkOf(net', x)
  BY <1>5, <1>10, ReadEach
<1>12. ReadShown(net', shown, srv, hist')
  BY <1>7, <1>9, <1>11 DEF ReadInv, ReadShown
<1>13. ReadNet(net', srv, hist')
  BY <1>7, <1>11 DEF ReadNet
<1> QED BY <1>1, <1>2, <1>7, <1>12, <1>13 DEF ReadInv

LEMMA ReadMarking ==
  ASSUME ReadInv, Notes!handleMarkAll \/ Notes!MarkAnswered \/ Notes!MarkAllAnswered
  PROVE  ReadInv'
<1>1. NotesInv'
  BY NotesMarking DEF ReadInv
<1>2. CASE Notes!handleMarkAll
  <2>1. PICK clicks : clicks = hist.clicks + 1
    OBVIOUS
  <2>2. /\ UNCHANGED <<ui, srv>> /\ hist' = [hist EXCEPT !.clicks = clicks]
        /\ net' = Sent(net, "all", None)
    BY <1>2, <2>1, NotesCalls DEF Notes!handleMarkAll, Notes!Clicked
  <2>3. hist'.unsure = hist.unsure
    BY <2>2 DEF ReadInv, NotesInv, NotesPast
  <2>4. ReadNet(net', srv, hist) /\ \A x : MarkOf(net, x) => MarkOf(net', x)
    BY <2>2, ReadSent
  <2>5. ReadNet(net', srv, hist') /\ Grows(srv, hist, srv, hist')
    BY <2>3, <2>4 DEF ReadInv, ReadNet, Grows
  <2> QED BY <1>1, <2>2, <2>4, <2>5, ReadKept
<1>3. CASE Notes!MarkAnswered
  <2>1. PICK i \in DOMAIN net : /\ net[i].stage = "answered" /\ net' = Settled(net, i)
                                /\ UNCHANGED <<ui, srv, hist>>
    BY <1>3, NotesCalls DEF Notes!MarkAnswered, Notes!Answered
  <2>2. /\ ReadNet(net', srv, hist)
        /\ \A x : MarkOf(net, x) => MarkOf(net', x) \/ x \in srv.read \cup hist.unsure
    BY <2>1, ReadSettled
  <2>3. Grows(srv, hist, srv, hist)
    BY DEF ReadInv, Grows
  <2> QED BY <1>1, <2>1, <2>2, <2>3, ReadKept
<1>4. CASE Notes!MarkAllAnswered
  <2>1. PICK i \in Notes!Answered(net, "all") : Notes!MarkAllAnswered!(i)
    BY <1>4 DEF Notes!MarkAllAnswered
  <2>2. i \in DOMAIN net /\ net[i].stage = "answered" /\ net' = Settled(net, i) /\ srv' = srv
    BY <2>1, NotesCalls DEF Notes!Answered
  <2>3. PICK shown, unsure : /\ shown = Notes!Marked(ui.shown, Notes!Ids)
                             /\ unsure = hist.unsure \cup (DOMAIN ui.shown \ srv.read)
    OBVIOUS
  <2>4. \/ UNCHANGED <<ui, hist>>
        \/ ui' = [ui EXCEPT !.shown = shown] /\ hist' = [hist EXCEPT !.unsure = unsure]
        \/ ui' = [ui EXCEPT !.error = TRUE] /\ hist' = hist
    BY <2>1, <2>3
  <2>5. DOMAIN shown = DOMAIN ui.shown
    BY <2>3 DEF Notes!Marked
  <2>6. /\ ReadNet(net', srv, hist)
        /\ \A x : MarkOf(net, x) => MarkOf(net', x) \/ x \in srv.read \cup hist.unsure
    BY <2>2, ReadSettled
  <2>7. CASE hist' = hist /\ ui'.shown = ui.shown
    <3>1. Grows(srv, hist, srv, hist)
      BY DEF ReadInv, Grows
    <3> QED BY <1>1, <2>2, <2>6, <2>7, <3>1, ReadKept
  <2>8. CASE ui' = [ui EXCEPT !.shown = shown] /\ hist' = [hist EXCEPT !.unsure = unsure]
    <3>1. ui'.shown = shown /\ hist'.unsure = unsure
      BY <2>8 DEF ReadInv, NotesInv, NotesUi, NotesPast
    <3>2. ReadNet(net', srv, hist')
      BY <2>3, <2>6, <3>1 DEF ReadNet
    <3>3. ReadShown(net', shown, srv, hist')
      BY <2>3, <2>5, <3>1 DEF ReadInv, ReadShown
    <3> QED BY <1>1, <2>2, <3>1, <3>2, <3>3 DEF ReadInv
  <2> QED BY <2>4, <2>7, <2>8 DEF ReadInv, NotesInv, NotesUi
<1> QED BY <1>2, <1>3, <1>4

LEMMA ReadNext ==
  ASSUME ReadInv, [Notes!Next]_(Notes!vars) PROVE ReadInv'
<1>1. CASE UNCHANGED Notes!vars
  BY <1>1, NotesNext DEF Notes!vars, ReadInv
<1> QED BY <1>1, ReadBackend, ReadOthers, ReadOpen, ReadTurned, ReadLoaded, ReadClicked,
           ReadMarking DEF Notes!Next

LEMMA ReadTruth ==
  ASSUME ReadInv PROVE Notes!ReadRowsAreRead
<1> SUFFICES ASSUME NEW item \in Notes!groupNotifications(ui.shown),
                    Notes!isRead(item, ui.shown), NEW x \in item
             PROVE  x \in srv.read \cup Notes!Marking(net) \cup hist.unsure
  BY DEF Notes!ReadRowsAreRead
<1>1. x \in DOMAIN ui.shown /\ ui.shown[x]
  BY DEF Notes!groupNotifications, Notes!isRead
<1>2. x \in srv.read \cup hist.unsure \/ MarkOf(net, x)
  BY <1>1 DEF ReadInv, ReadShown
<1> QED BY <1>2 DEF MarkOf, Notes!Marking

\* A row that looks read stands for notifications the backend has as read or a mark is on
\* its way for: no unread comment hides in a group, whatever crosses the click, but for
\* the marks that failed and what "mark all" covered on screen only.
THEOREM ReadRowsTrue == Notes!Spec => []Notes!ReadRowsAreRead
<1> QED BY ReadInit, ReadNext, ReadTruth, PTL DEF Notes!Spec

-----------------------------------------------------------------------------
(* The desk of support requests.  As long as the filter was not changed under *)
(* something on its way, whatever is on its way was asked under the filter of *)
(* the screen, and the list is of that filter or is being read.               *)

CONSTANTS Requests, Filters, MaxTempCodes, MaxDecisions

Recoveries == INSTANCE RecoveryDesk WITH MaxCodes <- MaxTempCodes, MaxClicks <- MaxDecisions

LEMMA RecoveriesCalls ==
  /\ \A n, i, d : Recoveries!Served(n, i, d) = Served(n, i, d)
  /\ \A n, i, d : Recoveries!Refused(n, i, d) = Refused(n, i, d)
  /\ \A n, i : Recoveries!Settled(n, i) = Settled(n, i)
  /\ \A n, k, a : Recoveries!Sent(n, k, a) = Sent(n, k, a)
  /\ \A n, k : Recoveries!Unheard(n, k) = Unheard(n, k)
BY DEF Recoveries!Served, Served, Recoveries!Refused, Refused, Recoveries!Settled, Settled,
       Recoveries!RemoveAt, RemoveAt, Recoveries!Sent, Sent, Recoveries!Call, Call, Recoveries!Unheard, Unheard

RecoveriesUi(u) == u = [rows |-> u.rows, filter |-> u.filter, busy |-> u.busy, issued |-> u.issued]

RecoveriesPast(h) == /\ h = [clicks |-> h.clicks, mixed |-> h.mixed, off |-> h.off]
                  /\ h.mixed \in BOOLEAN

OfFilter(rows, f) == \A r \in DOMAIN rows : Recoveries!Under(f, rows[r])

Reading(n, i) == i \in DOMAIN n /\ n[i].here /\ n[i].kind = "load"

\* A list that was read is of the filter it was asked with.
RecoveriesNet(n) ==
    /\ Proper(n)
    /\ \A i \in DOMAIN n : n[i].kind \in Recoveries!Kinds
    /\ \A i : Reading(n, i) /\ n[i].ok => OfFilter(n[i].data, n[i].arg.filter)

\* What is heard was asked under this filter.
AskedUnder(n, f) == \A i \in DOMAIN n : n[i].here => n[i].arg.filter = f

Listed(n, rows, f) == OfFilter(rows, f) \/ \E i : Reading(n, i)

RecoveriesInv ==
    /\ RecoveriesUi(ui) /\ RecoveriesPast(hist) /\ RecoveriesNet(net)
    /\ ~ hist.mixed => AskedUnder(net, ui.filter) /\ Listed(net, ui.rows, ui.filter)

LEMMA RecoveriesInit ==
  ASSUME Recoveries!Init PROVE RecoveriesInv
<1>1. PICK e : e = << >>
  OBVIOUS
<1>2. PICK a : a = Recoveries!Asked("pending", FALSE)
  OBVIOUS
<1>3. Proper(e) /\ DOMAIN e = {}
  BY <1>1, ProperEmpty
<1>4. net = Sent(e, "load", a) /\ a.filter = "pending"
  BY <1>1, <1>2, RecoveriesCalls DEF Recoveries!Init, Recoveries!Asked
<1>5. PICK last : Asks(e, net, last, "load", a)
  BY <1>3, <1>4, ProperSent
<1>6. RecoveriesNet(net) /\ AskedUnder(net, "pending") /\ Reading(net, last)
  BY <1>3, <1>4, <1>5 DEF Asks, RecoveriesNet, AskedUnder, Reading, Recoveries!Kinds
<1>7. RecoveriesUi(ui) /\ ui.filter = "pending" /\ RecoveriesPast(hist)
  BY DEF Recoveries!Init, Recoveries!Fresh, RecoveriesUi, RecoveriesPast
<1> QED BY <1>6, <1>7 DEF RecoveriesInv, Listed

LEMMA RecoveriesAnswer ==
  ASSUME RecoveriesInv, ui' = ui, RecoveriesPast(hist'), hist'.mixed = hist.mixed,
         NEW i \in DOMAIN net, net[i].stage = "sent", NEW data, NEW ok,
         Answers(net, i, net', data, ok),
         ok = TRUE /\ net[i].kind = "load" => OfFilter(data, net[i].arg.filter)
  PROVE  RecoveriesInv'
<1>1. /\ Proper(net') /\ DOMAIN net' = DOMAIN net
      /\ \A j \in DOMAIN net \ {i} : net'[j] = net[j]
      /\ \A j \in DOMAIN net : /\ net'[j].kind = net[j].kind /\ net'[j].arg = net[j].arg
                               /\ net'[j].here = net[j].here
      /\ net'[i].data = data /\ net'[i].ok = ok
  BY DEF Answers
<1>2. \A j : Reading(net', j) <=> Reading(net, j)
  BY <1>1 DEF Reading
<1>3. RecoveriesNet(net')
  BY <1>1, <1>2 DEF RecoveriesInv, RecoveriesNet, Reading
<1>4. \A f, rows : /\ AskedUnder(net, f) => AskedUnder(net', f)
                   /\ Listed(net, rows, f) => Listed(net', rows, f)
  BY <1>1, <1>2 DEF AskedUnder, Listed
<1> QED BY <1>3, <1>4 DEF RecoveriesInv

LEMMA RecoveriesBackend ==
  ASSUME RecoveriesInv, Recoveries!Backend PROVE RecoveriesInv'
<1>1. ui' = ui /\ Proper(net)
  BY DEF Recoveries!Backend, RecoveriesInv, RecoveriesNet
<1>2. RecoveriesPast(hist') /\ hist'.mixed = hist.mixed
  <2>1. PICK b : hist' = [hist EXCEPT !.off = b] \/ hist' = hist
    BY DEF Recoveries!Backend, Recoveries!ListRequests, Recoveries!Approve, Recoveries!Reject,
           Recoveries!ServeRefusal, Recoveries!Told
  <2> QED BY <2>1 DEF RecoveriesInv, RecoveriesPast
<1>3. CASE Recoveries!ListRequests
  <2>1. PICK i, data :
          /\ i \in DOMAIN net /\ net[i].stage = "sent" /\ net' = Served(net, i, data)
          /\ data = [r \in {r \in Requests : Recoveries!Under(net[i].arg.filter, srv.status[r])}
                       |-> srv.status[r]]
    BY <1>3, RecoveriesCalls DEF Recoveries!ListRequests, Recoveries!Waiting
  <2>2. Answers(net, i, net', data, TRUE)
    BY <1>1, <2>1, ProperAnswered
  <2>3. OfFilter(data, net[i].arg.filter)
    BY <2>1 DEF OfFilter
  <2> QED BY <1>1, <1>2, <2>1, <2>2, <2>3, RecoveriesAnswer
<1>4. CASE Recoveries!Approve \/ Recoveries!Reject \/ Recoveries!ServeRefusal
  <2>1. PICK i, data :
          /\ i \in DOMAIN net /\ net[i].stage = "sent"
          /\ \/ net' = Served(net, i, data) /\ net[i].kind # "load"
             \/ net' = Refused(net, i, data)
    BY <1>4, RecoveriesCalls
       DEF Recoveries!Approve, Recoveries!Reject, Recoveries!ServeRefusal, Recoveries!Told, Recoveries!Waiting
  <2>2. CASE net' = Refused(net, i, data)
    <3>1. Answers(net, i, net', data, FALSE)
      BY <1>1, <2>1, <2>2, ProperAnswered
    <3> QED BY <1>1, <1>2, <2>1, <3>1, RecoveriesAnswer
  <2>3. CASE net' = Served(net, i, data) /\ net[i].kind # "load"
    <3>1. Answers(net, i, net', data, TRUE)
      BY <1>1, <2>1, <2>3, ProperAnswered
    <3> QED BY <1>1, <1>2, <2>1, <2>3, <3>1, RecoveriesAnswer
  <2> QED BY <2>1, <2>2, <2>3
<1> QED BY <1>3, <1>4 DEF Recoveries!Backend

LEMMA RecoveriesElsewhere ==
  ASSUME RecoveriesInv, Recoveries!Elsewhere PROVE RecoveriesInv'
<1>1. ui' = ui /\ net' = net /\ hist' = [hist EXCEPT !.off = TRUE]
  BY DEF Recoveries!Elsewhere
<1>2. RecoveriesPast(hist') /\ hist'.mixed = hist.mixed
  BY <1>1 DEF RecoveriesInv, RecoveriesPast
<1> QED BY <1>1, <1>2 DEF RecoveriesInv

\* The end of a call: what is left was asked under the same filter.
LEMMA RecoveriesSettle ==
  ASSUME NEW n, NEW m, NEW i \in DOMAIN n, Settles(n, m, i), RecoveriesNet(n)
  PROVE  /\ RecoveriesNet(m)
         /\ \A f : AskedUnder(n, f) => AskedUnder(m, f)
         /\ \A rows, f : Listed(n, rows, f) /\ ~ Reading(n, i) => Listed(m, rows, f)
<1>1. /\ \A j \in DOMAIN m : From(i, j) \in DOMAIN n /\ m[j] = n[From(i, j)]
      /\ \A j : Reading(m, j) => Reading(n, From(i, j)) /\ m[j] = n[From(i, j)]
      /\ \A k : Reading(n, k) /\ k # i => \E j : Reading(m, j)
  BY DEF Settles, Reading
<1>2. Proper(m)
  BY DEF Settles
<1>3. RecoveriesNet(m)
  BY <1>1, <1>2 DEF RecoveriesNet
<1>4. \A f : AskedUnder(n, f) => AskedUnder(m, f)
  BY <1>1 DEF AskedUnder
<1>5. \A rows, f : Listed(n, rows, f) /\ ~ Reading(n, i) => Listed(m, rows, f)
  BY <1>1 DEF Listed
<1> QED BY <1>3, <1>4, <1>5

LEMMA RecoveriesAsk ==
  ASSUME NEW n, NEW m, NEW last, NEW kind \in Recoveries!Kinds, NEW a,
         Asks(n, m, last, kind, a), RecoveriesNet(n)
  PROVE  /\ RecoveriesNet(m)
         /\ AskedUnder(n, a.filter) => AskedUnder(m, a.filter)
         /\ \A rows, f : Listed(n, rows, f) \/ kind = "load" => Listed(m, rows, f)
<1>1. /\ \A j : Reading(m, j) <=> Reading(n, j) \/ (j = last /\ kind = "load")
      /\ \A j \in DOMAIN n : m[j] = n[j]
      /\ DOMAIN m = DOMAIN n \cup {last} /\ last \notin DOMAIN n
      /\ m[last].kind = kind /\ m[last].arg = a /\ ~ m[last].ok
      /\ Proper(m)
  BY DEF Asks, Reading
<1>2. RecoveriesNet(m)
  BY <1>1 DEF RecoveriesNet, Reading
<1>3. AskedUnder(n, a.filter) => AskedUnder(m, a.filter)
  BY <1>1 DEF AskedUnder
<1>4. \A rows, f : Listed(n, rows, f) \/ kind = "load" => Listed(m, rows, f)
  BY <1>1 DEF Listed
<1> QED BY <1>2, <1>3, <1>4

LEMMA RecoveriesLoaded ==
  ASSUME RecoveriesInv, Recoveries!LoadAnswered PROVE RecoveriesInv'
<1>1. PICK i \in DOMAIN net :
        /\ net[i].kind = "load" /\ net' = Settled(net, i)
        /\ LET seen == IF net[i].ok THEN [ui EXCEPT !.rows = net[i].data] ELSE ui
           IN ui' = IF ~ net[i].here THEN ui
                    ELSE IF net[i].arg.after THEN [seen EXCEPT !.busy = None] ELSE seen
        /\ hist' = IF net[i].here /\ ~ net[i].ok THEN [hist EXCEPT !.mixed = TRUE] ELSE hist
  BY RecoveriesCalls DEF Recoveries!LoadAnswered, Recoveries!Answered
<1>2. Settles(net, net', i) /\ RecoveriesNet(net)
  BY <1>1, ProperSettled DEF RecoveriesInv, RecoveriesNet
<1>3. /\ RecoveriesNet(net')
      /\ \A f : AskedUnder(net, f) => AskedUnder(net', f)
      /\ \A rows, f : Listed(net, rows, f) /\ ~ Reading(net, i) => Listed(net', rows, f)
  BY <1>2, RecoveriesSettle
<1>4. /\ RecoveriesUi(ui') /\ ui'.filter = ui.filter
      /\ ui'.rows = IF net[i].here /\ net[i].ok THEN net[i].data ELSE ui.rows
  BY <1>1 DEF RecoveriesInv, RecoveriesUi
<1>5. /\ RecoveriesPast(hist')
      /\ ~ hist'.mixed => ~ hist.mixed /\ ~ (net[i].here /\ ~ net[i].ok)
  BY <1>1 DEF RecoveriesInv, RecoveriesPast
<1>6. ASSUME ~ hist'.mixed PROVE Listed(net', ui'.rows, ui'.filter)
  <2>1. CASE net[i].here
    <3>1. net[i].ok /\ Reading(net, i) /\ net[i].arg.filter = ui.filter
      BY <1>1, <1>5, <1>6, <2>1 DEF Reading, RecoveriesInv, AskedUnder
    <3>2. OfFilter(net[i].data, ui.filter)
      BY <1>2, <3>1 DEF RecoveriesNet
    <3> QED BY <1>4, <2>1, <3>1, <3>2 DEF Listed
  <2>2. CASE ~ net[i].here
    BY <1>3, <1>4, <1>5, <1>6, <2>2 DEF RecoveriesInv, Reading
  <2> QED BY <2>1, <2>2
<1> QED BY <1>3, <1>4, <1>5, <1>6 DEF RecoveriesInv

LEMMA RecoveriesTurns ==
  ASSUME RecoveriesInv, Recoveries!ChangeFilter PROVE RecoveriesInv'
<1>1. PICK f, a : /\ ui' = [ui EXCEPT !.filter = f] /\ a.filter = f
                  /\ net' = Sent(net, "load", a)
                  /\ hist' = [[hist EXCEPT !.mixed = @ \/ net # << >>] EXCEPT !.clicks = @ + 1]
  BY RecoveriesCalls DEF Recoveries!ChangeFilter, Recoveries!NewList, Recoveries!Asked, Recoveries!Click
<1>2. PICK last : Asks(net, net', last, "load", a)
  BY <1>1, ProperSent DEF RecoveriesInv, RecoveriesNet
<1>3. PICK yes \in BOOLEAN : yes = (hist.mixed \/ net # << >>)
  OBVIOUS
<1>4. RecoveriesPast(hist') /\ (~ hist'.mixed => net = << >>)
  <2>1. hist' = [[hist EXCEPT !.mixed = yes] EXCEPT !.clicks = @ + 1]
    BY <1>1, <1>3
  <2>2. RecoveriesPast(hist') /\ hist'.mixed = yes
    BY <2>1 DEF RecoveriesInv, RecoveriesPast
  <2> QED BY <1>3, <2>2
<1>5. net = << >> => AskedUnder(net, f)
  BY DEF AskedUnder
<1>6. /\ RecoveriesNet(net')
      /\ AskedUnder(net, f) => AskedUnder(net', f)
      /\ \A rows, g : Listed(net', rows, g)
  BY <1>1, <1>2, RecoveriesAsk DEF RecoveriesInv, Recoveries!Kinds
<1>7. RecoveriesUi(ui') /\ ui'.filter = f
  BY <1>1 DEF RecoveriesInv, RecoveriesUi
<1> QED BY <1>4, <1>5, <1>6, <1>7 DEF RecoveriesInv

LEMMA RecoveriesDecides ==
  ASSUME RecoveriesInv, Recoveries!handleApprove \/ Recoveries!handleReject PROVE RecoveriesInv'
<1>1. PICK kind, r, a :
        /\ kind \in {"approve", "reject"} /\ a.filter = ui.filter
        /\ ui' = [ui EXCEPT !.busy = r] /\ net' = Sent(net, kind, a)
        /\ hist' = [hist EXCEPT !.clicks = @ + 1]
  BY RecoveriesCalls DEF Recoveries!handleApprove, Recoveries!handleReject, Recoveries!Decide, Recoveries!Click
<1>2. PICK last : Asks(net, net', last, kind, a)
  BY <1>1, ProperSent DEF RecoveriesInv, RecoveriesNet
<1>3. RecoveriesUi(ui') /\ ui'.rows = ui.rows /\ ui'.filter = ui.filter
  BY <1>1 DEF RecoveriesInv, RecoveriesUi
<1>4. RecoveriesPast(hist') /\ hist'.mixed = hist.mixed
  BY <1>1 DEF RecoveriesInv, RecoveriesPast
<1>5. kind \in Recoveries!Kinds
  BY <1>1 DEF Recoveries!Kinds
<1>6. /\ RecoveriesNet(net')
      /\ AskedUnder(net, ui.filter) => AskedUnder(net', ui.filter)
      /\ \A rows, f : Listed(net, rows, f) => Listed(net', rows, f)
  BY <1>1, <1>2, <1>5, RecoveriesAsk DEF RecoveriesInv
<1> QED BY <1>3, <1>4, <1>6 DEF RecoveriesInv

LEMMA RecoveriesDecided ==
  ASSUME RecoveriesInv, Recoveries!act PROVE RecoveriesInv'
<1>1. PICK i, a :
        /\ i \in DOMAIN net /\ net[i].kind # "load" /\ hist' = hist /\ a.filter = net[i].arg.filter
        /\ ui' = IF ~ net[i].here THEN ui
                 ELSE IF net[i].ok THEN [ui EXCEPT !.issued = Recoveries!Issued(net[i])]
                 ELSE [ui EXCEPT !.busy = None]
        /\ net' = IF net[i].here /\ net[i].ok THEN Sent(Settled(net, i), "load", a)
                                              ELSE Settled(net, i)
  BY RecoveriesCalls DEF Recoveries!act, Recoveries!Answered, Recoveries!Asked
<1>2. PICK m : m = Settled(net, i)
  OBVIOUS
<1>3. Settles(net, m, i) /\ RecoveriesNet(net)
  BY <1>1, <1>2, ProperSettled DEF RecoveriesInv, RecoveriesNet
<1>4. /\ RecoveriesNet(m)
      /\ \A f : AskedUnder(net, f) => AskedUnder(m, f)
      /\ \A rows, f : Listed(net, rows, f) => Listed(m, rows, f)
  BY <1>1, <1>3, RecoveriesSettle DEF Reading
<1>5. RecoveriesUi(ui') /\ ui'.rows = ui.rows /\ ui'.filter = ui.filter
  BY <1>1 DEF RecoveriesInv, RecoveriesUi
<1>6. CASE net' = m
  BY <1>1, <1>4, <1>5, <1>6 DEF RecoveriesInv
<1>7. CASE net[i].here /\ net' = Sent(m, "load", a)
  <2>1. PICK last : Asks(m, net', last, "load", a)
    BY <1>4, <1>7, ProperSent DEF RecoveriesNet
  <2>2. /\ RecoveriesNet(net')
        /\ AskedUnder(m, a.filter) => AskedUnder(net', a.filter)
        /\ \A rows, f : Listed(net', rows, f)
    BY <1>4, <2>1, RecoveriesAsk DEF Recoveries!Kinds
  <2>3. ~ hist.mixed => a.filter = ui.filter
    BY <1>1, <1>7 DEF RecoveriesInv, AskedUnder
  <2> QED BY <1>1, <1>4, <1>5, <2>2, <2>3 DEF RecoveriesInv
<1> QED BY <1>1, <1>2, <1>6, <1>7

LEMMA RecoveriesHides ==
  ASSUME RecoveriesInv, Recoveries!HideCode PROVE RecoveriesInv'
<1>1. ui' = [ui EXCEPT !.issued = None] /\ UNCHANGED <<net, hist>>
  BY DEF Recoveries!HideCode
<1>2. RecoveriesUi(ui') /\ ui'.rows = ui.rows /\ ui'.filter = ui.filter
  BY <1>1 DEF RecoveriesInv, RecoveriesUi
<1> QED BY <1>1, <1>2 DEF RecoveriesInv

LEMMA RecoveriesReopens ==
  ASSUME RecoveriesInv, Recoveries!Reopen PROVE RecoveriesInv'
<1>1. PICK a, m : /\ ui' = Recoveries!Fresh /\ a.filter = "pending"
                  /\ m = Unheard(net, Recoveries!Kinds) /\ net' = Sent(m, "load", a)
                  /\ hist' = [[hist EXCEPT !.mixed = FALSE] EXCEPT !.clicks = @ + 1]
  BY RecoveriesCalls DEF Recoveries!Reopen, Recoveries!Asked, Recoveries!Click
<1>2. Silences(net, m, Recoveries!Kinds)
  BY <1>1, ProperUnheard DEF RecoveriesInv, RecoveriesNet
<1>3. RecoveriesNet(m) /\ AskedUnder(m, "pending")
  BY <1>2 DEF Silences, RecoveriesInv, RecoveriesNet, AskedUnder, Reading
<1>4. PICK last : Asks(m, net', last, "load", a)
  BY <1>1, <1>3, ProperSent DEF RecoveriesNet
<1>5. /\ RecoveriesNet(net') /\ AskedUnder(net', "pending")
      /\ \A rows, f : Listed(net', rows, f)
  BY <1>1, <1>3, <1>4, RecoveriesAsk DEF Recoveries!Kinds
<1>6. RecoveriesUi(ui') /\ ui'.filter = "pending"
  BY <1>1 DEF RecoveriesUi, Recoveries!Fresh
<1>7. RecoveriesPast(hist')
  BY <1>1 DEF RecoveriesInv, RecoveriesPast
<1> QED BY <1>5, <1>6, <1>7 DEF RecoveriesInv

LEMMA RecoveriesNext ==
  ASSUME RecoveriesInv, [Recoveries!Next]_(Recoveries!vars) PROVE RecoveriesInv'
<1>1. CASE UNCHANGED Recoveries!vars
  BY <1>1 DEF Recoveries!vars, RecoveriesInv
<1> QED BY <1>1, RecoveriesBackend, RecoveriesElsewhere, RecoveriesLoaded, RecoveriesTurns, RecoveriesDecides,
           RecoveriesDecided, RecoveriesHides, RecoveriesReopens DEF Recoveries!Next

\* When nothing is on its way, the support requests on screen are those of the chosen
\* filter, unless it was changed while something was on its way or a read failed.
THEOREM RequestsOfFilter == Recoveries!Spec => []Recoveries!ListIsOfFilter
<1>1. RecoveriesInv => Recoveries!ListIsOfFilter
  BY DEF RecoveriesInv, Listed, Reading, OfFilter, Recoveries!ListIsOfFilter
<1> QED BY <1>1, RecoveriesInit, RecoveriesNext, PTL DEF Recoveries!Spec

-----------------------------------------------------------------------------
(* A request on the managers' desk.  As long as nobody else decides, no       *)
(* answer is lost and no click comes before the request was read again, one   *)
(* call is on its way at most; the request on screen is the stored one, but   *)
(* for what the organizer may do to a request that waits for a decision,      *)
(* which is to withdraw it, unless a decision was made and is not read yet.   *)

CONSTANTS MaxRevisions, MaxRemarks, MaxVerdicts

Reviews == INSTANCE RequestDesk WITH MaxTexts <- MaxRemarks, MaxClicks <- MaxVerdicts

LEMMA ReviewsCalls ==
  /\ \A n, i, d : Reviews!Served(n, i, d) = Served(n, i, d)
  /\ \A n, i, d : Reviews!Refused(n, i, d) = Refused(n, i, d)
  /\ \A n, i : Reviews!Settled(n, i) = Settled(n, i)
  /\ \A n, k, a : Reviews!Sent(n, k, a) = Sent(n, k, a)
BY DEF Reviews!Served, Served, Reviews!Refused, Refused, Reviews!Settled, Settled,
       Reviews!RemoveAt, RemoveAt, Reviews!Sent, Sent, Reviews!Call, Call

ReviewsUi(u) == /\ u = [request |-> u.request, comment |-> u.comment, saving |-> u.saving]
                /\ u.saving \in BOOLEAN

ReviewsRow(s) == s = [status |-> s.status, comment |-> s.comment, revision |-> s.revision]

ReviewsPast(h) == /\ h = [clicks |-> h.clicks, texts |-> h.texts, apart |-> h.apart,
                          blind |-> h.blind]
                  /\ h.apart \in BOOLEAN /\ h.blind = FALSE

Decidable == {"submitted", "in_review"}

\* What was decided about is still there to be decided, or withdrawn.
Stands(revision, s) == s.revision = revision /\ s.status \in Decidable \cup {"cancelled"}

\* A request as it was read, and the request as it is.
Behind(x, s) == x.status \in Decidable => Stands(x.revision, s)

Verdict(n, i) == i \in DOMAIN n /\ n[i].kind = "decide"
Look(n, i) == i \in DOMAIN n /\ n[i].kind = "load"

ReviewsNet(n, saving) ==
    /\ Proper(n)
    /\ \A i \in DOMAIN n : n[i].kind \in {"load", "decide"}
    /\ \A i : Verdict(n, i) => saving
    /\ \A i, j : Verdict(n, i) /\ Verdict(n, j) => i = j

\* Nothing else acts on the request, nothing was lost.
NobodyElse(n, u, s) ==
    /\ \A i, j \in DOMAIN n : i = j
    /\ \A i : Verdict(n, i) /\ n[i].stage = "sent" => Stands(n[i].arg.revision, s)
    /\ \A i : Look(n, i) /\ n[i].stage = "answered" => n[i].ok /\ Behind(n[i].data, s)
    /\ u.request # None /\ (\A i \in DOMAIN n : n[i].kind = "decide" /\ ~ n[i].ok)
          => Behind(u.request, s)

ReviewsInv ==
    /\ ReviewsUi(ui) /\ ReviewsRow(srv) /\ ReviewsPast(hist) /\ ReviewsNet(net, ui.saving)
    /\ ~ hist.apart => NobodyElse(net, ui, srv)

LEMMA ReviewsInit ==
  ASSUME Reviews!Init PROVE ReviewsInv
<1>1. PICK e : e = << >>
  OBVIOUS
<1>2. Proper(e) /\ DOMAIN e = {}
  BY <1>1, ProperEmpty
<1>3. net = Sent(e, "load", None)
  BY <1>1, ReviewsCalls DEF Reviews!Init
<1>4. PICK last : Asks(e, net, last, "load", None)
  BY <1>2, <1>3, ProperSent
<1>5. ReviewsNet(net, FALSE)
  BY <1>2, <1>4 DEF Asks, ReviewsNet, Verdict
<1>6. ReviewsUi(ui) /\ ui.request = None /\ ui.saving = FALSE /\ ReviewsRow(srv) /\ ReviewsPast(hist)
  BY DEF Reviews!Init, ReviewsUi, ReviewsRow, ReviewsPast
<1>7. NobodyElse(net, ui, srv)
  BY <1>2, <1>4, <1>6 DEF Asks, NobodyElse, Verdict, Look
<1> QED BY <1>5, <1>6, <1>7 DEF ReviewsInv

LEMMA ReviewsAnswer ==
  ASSUME NEW n, NEW m, NEW i \in DOMAIN n, NEW data, NEW ok, Answers(n, i, m, data, ok),
         NEW saving, ReviewsNet(n, saving)
  PROVE  ReviewsNet(m, saving)
BY DEF Answers, ReviewsNet, Verdict

LEMMA ReviewsBackend ==
  ASSUME ReviewsInv, Reviews!Backend PROVE ReviewsInv'
<1>1. ui' = ui /\ Proper(net) /\ ReviewsNet(net, ui.saving)
  BY DEF Reviews!Backend, ReviewsInv, ReviewsNet
<1>2. CASE Reviews!AdminGet
  <2>1. PICK i \in DOMAIN net :
          /\ net[i].kind = "load" /\ net[i].stage = "sent" /\ net' = Served(net, i, srv)
          /\ UNCHANGED <<srv, hist>>
    BY <1>2, ReviewsCalls DEF Reviews!AdminGet, Reviews!Waiting
  <2>2. Answers(net, i, net', srv, TRUE)
    BY <1>1, <2>1, ProperAnswered
  <2>3. ReviewsNet(net', ui.saving)
    BY <1>1, <2>2, ReviewsAnswer
  <2>4. ASSUME ~ hist.apart PROVE NobodyElse(net', ui, srv)
    <3>1. \A j \in DOMAIN net : j = i
      BY <2>1, <2>4 DEF ReviewsInv, NobodyElse
    <3>2. DOMAIN net' = DOMAIN net /\ net'[i].kind = "load" /\ net'[i].ok = TRUE /\ net'[i].data = srv
      BY <2>1, <2>2 DEF Answers
    <3>3. srv.status \in Decidable => Stands(srv.revision, srv)
      BY DEF Stands
    <3> QED BY <2>1, <3>1, <3>2, <3>3 DEF NobodyElse, Verdict, Look, Behind
  <2> QED BY <1>1, <2>1, <2>3, <2>4 DEF ReviewsInv
<1>3. CASE Reviews!ServeRefusal
  <2>1. PICK i \in DOMAIN net : /\ net[i].stage = "sent" /\ net' = Refused(net, i, None) /\ srv' = srv
                                /\ hist' = [hist EXCEPT !.apart = @ \/ net[i].kind = "load"]
    BY <1>3, ReviewsCalls DEF Reviews!ServeRefusal
  <2>2. Answers(net, i, net', None, FALSE)
    BY <1>1, <2>1, ProperAnswered
  <2>3. ReviewsNet(net', ui.saving)
    BY <1>1, <2>2, ReviewsAnswer
  <2>4. PICK yes \in BOOLEAN : yes = (hist.apart \/ net[i].kind = "load")
    OBVIOUS
  <2>5. ReviewsPast(hist') /\ (~ hist'.apart => ~ hist.apart /\ net[i].kind # "load")
    <3>1. hist' = [hist EXCEPT !.apart = yes]
      BY <2>1, <2>4
    <3>2. ReviewsPast(hist') /\ hist'.apart = yes
      BY <3>1 DEF ReviewsInv, ReviewsPast
    <3> QED BY <2>4, <3>2
  <2>6. ASSUME ~ hist'.apart PROVE NobodyElse(net', ui, srv)
    <3>1. net[i].kind = "decide" /\ ~ net[i].ok /\ \A j \in DOMAIN net : j = i
      BY <1>1, <2>1, <2>5, <2>6 DEF ReviewsInv, ReviewsNet, NobodyElse, Proper, IsCall
    <3>2. /\ DOMAIN net' = DOMAIN net /\ net'[i].kind = "decide" /\ net'[i].ok = FALSE
          /\ net'[i].stage = "answered"
      BY <2>1, <2>2, <3>1 DEF Answers
    <3>3. ui.request # None => Behind(ui.request, srv)
      BY <2>5, <2>6, <3>1 DEF ReviewsInv, NobodyElse
    <3> QED BY <3>1, <3>2, <3>3 DEF NobodyElse, Verdict, Look
  <2> QED BY <1>1, <2>1, <2>3, <2>5, <2>6 DEF ReviewsInv
<1>4. CASE Reviews!AdminUpdateStatus
  <2>1. PICK i \in DOMAIN net, blind \in BOOLEAN :
          /\ net[i].kind = "decide" /\ net[i].stage = "sent"
          /\ blind = (hist.blind \/ (net[i].arg.revision # srv.revision /\ ~ hist.apart))
          /\ srv' = [srv EXCEPT !.status = net[i].arg.status, !.comment = net[i].arg.comment]
          /\ \/ net' = Served(net, i, None) /\ hist' = [hist EXCEPT !.blind = blind]
             \/ /\ net' = Refused(net, i, None)
                /\ hist' = [hist EXCEPT !.blind = blind, !.apart = TRUE]
    BY <1>4, ReviewsCalls DEF Reviews!AdminUpdateStatus, Reviews!Waiting
  <2>2. blind = FALSE
    BY <2>1 DEF ReviewsInv, ReviewsPast, NobodyElse, Stands, Verdict
  <2>3. ReviewsRow(srv')
    BY <2>1 DEF ReviewsInv, ReviewsRow
  <2>4. CASE net' = Served(net, i, None) /\ hist' = [hist EXCEPT !.blind = blind]
    <3>1. Answers(net, i, net', None, TRUE)
      BY <1>1, <2>1, <2>4, ProperAnswered
    <3>2. ReviewsNet(net', ui.saving)
      BY <1>1, <3>1, ReviewsAnswer
    <3>3. ReviewsPast(hist') /\ hist'.apart = hist.apart
      BY <2>2, <2>4 DEF ReviewsInv, ReviewsPast
    <3>4. ASSUME ~ hist.apart PROVE NobodyElse(net', ui, srv')
      <4>1. \A j \in DOMAIN net : j = i
        BY <2>1, <3>4 DEF ReviewsInv, NobodyElse
      <4>2. /\ DOMAIN net' = DOMAIN net /\ net'[i].kind = "decide" /\ net'[i].ok = TRUE
            /\ net'[i].stage = "answered"
        BY <2>1, <3>1 DEF Answers
      <4> QED BY <4>1, <4>2 DEF NobodyElse, Verdict, Look
    <3> QED BY <1>1, <2>3, <3>2, <3>3, <3>4 DEF ReviewsInv
  <2>5. CASE net' = Refused(net, i, None) /\ hist' = [hist EXCEPT !.blind = blind, !.apart = TRUE]
    <3>1. Answers(net, i, net', None, FALSE)
      BY <1>1, <2>1, <2>5, ProperAnswered
    <3>2. ReviewsNet(net', ui.saving)
      BY <1>1, <3>1, ReviewsAnswer
    <3>3. ReviewsPast(hist') /\ hist'.apart = TRUE
      BY <2>2, <2>5 DEF ReviewsInv, ReviewsPast
    <3> QED BY <1>1, <2>3, <3>2, <3>3 DEF ReviewsInv
  <2> QED BY <2>1, <2>4, <2>5
<1> QED BY <1>2, <1>3, <1>4 DEF Reviews!Backend

\* The organizer submits only what was sent back, and may withdraw.
LEMMA ReviewsOrganizer ==
  ASSUME ReviewsInv, Reviews!Submit \/ Reviews!Cancel PROVE ReviewsInv'
<1>1. UNCHANGED <<ui, net, hist>> /\ ReviewsRow(srv')
  BY DEF Reviews!Submit, Reviews!Cancel, ReviewsInv, ReviewsRow
<1>2. \A r : Stands(r, srv) => Stands(r, srv')
  BY DEF Reviews!Submit, Reviews!Cancel, ReviewsInv, ReviewsRow, Stands, Decidable
<1>3. \A x : Behind(x, srv) => Behind(x, srv')
  BY <1>2 DEF Behind
<1>4. NobodyElse(net, ui, srv) => NobodyElse(net, ui, srv')
  BY <1>2, <1>3 DEF NobodyElse
<1> QED BY <1>1, <1>4 DEF ReviewsInv

LEMMA ReviewsElsewhere ==
  ASSUME ReviewsInv, Reviews!Elsewhere PROVE ReviewsInv'
<1>1. PICK s : /\ UNCHANGED <<ui, net>> /\ hist' = [hist EXCEPT !.apart = TRUE]
               /\ srv' = [srv EXCEPT !.status = s]
  BY DEF Reviews!Elsewhere
<1>2. ReviewsPast(hist') /\ hist'.apart = TRUE /\ ReviewsRow(srv')
  BY <1>1 DEF ReviewsInv, ReviewsPast, ReviewsRow
<1> QED BY <1>1, <1>2 DEF ReviewsInv

LEMMA ReviewsSettle ==
  ASSUME NEW n, NEW m, NEW i \in DOMAIN n, Settles(n, m, i), NEW saving, ReviewsNet(n, saving)
  PROVE  /\ ReviewsNet(m, saving)
         /\ (\A j, k \in DOMAIN n : j = k) => DOMAIN m = {}
BY DEF Settles, ReviewsNet, Verdict

LEMMA ReviewsLoaded ==
  ASSUME ReviewsInv, Reviews!LoadAnswered PROVE ReviewsInv'
<1>1. PICK i, d :
        /\ i \in DOMAIN net /\ net[i].kind = "load" /\ net[i].stage = "answered" /\ net' = Settled(net, i)
        /\ d = net[i].data /\ UNCHANGED <<srv, hist>>
        /\ ui' = IF net[i].ok THEN [ui EXCEPT !.request = d, !.comment = d.comment] ELSE ui
  BY ReviewsCalls DEF Reviews!LoadAnswered, Reviews!Answered
<1>2. Settles(net, net', i) /\ ReviewsNet(net, ui.saving)
  BY <1>1, ProperSettled DEF ReviewsInv, ReviewsNet
<1>3. /\ ReviewsNet(net', ui.saving)
      /\ (\A j, k \in DOMAIN net : j = k) => DOMAIN net' = {}
  BY <1>1, <1>2, ReviewsSettle
<1>4. /\ ReviewsUi(ui') /\ ui'.saving = ui.saving
      /\ net[i].ok => ui'.request = d
  BY <1>1 DEF ReviewsInv, ReviewsUi
<1>5. ASSUME ~ hist.apart PROVE NobodyElse(net', ui', srv)
  <2>1. DOMAIN net' = {} /\ net[i].ok /\ Behind(d, srv)
    BY <1>1, <1>3, <1>5 DEF ReviewsInv, NobodyElse, Look
  <2> QED BY <1>4, <2>1 DEF NobodyElse, Verdict, Look
<1> QED BY <1>1, <1>3, <1>4, <1>5 DEF ReviewsInv

LEMMA ReviewsTyped ==
  ASSUME ReviewsInv, Reviews!Type PROVE ReviewsInv'
<1>1. PICK c, t : /\ ui' = [ui EXCEPT !.comment = c] /\ hist' = [hist EXCEPT !.texts = t]
                  /\ UNCHANGED <<net, srv>>
  BY DEF Reviews!Type
<1>2. /\ ReviewsUi(ui') /\ ui'.saving = ui.saving /\ ui'.request = ui.request
      /\ ReviewsPast(hist') /\ hist'.apart = hist.apart
  BY <1>1 DEF ReviewsInv, ReviewsUi, ReviewsPast
<1>3. NobodyElse(net, ui, srv) => NobodyElse(net, ui', srv)
  BY <1>2 DEF NobodyElse
<1> QED BY <1>1, <1>2, <1>3 DEF ReviewsInv

LEMMA ReviewsDecides ==
  ASSUME ReviewsInv, Reviews!handleStatusChange PROVE ReviewsInv'
<1>1. PICK yes \in BOOLEAN : yes = (hist.apart \/ Reviews!InFlight(net, "load"))
  OBVIOUS
<1>2. PICK s \in Reviews!Decisions :
        /\ ui.request # None /\ ~ ui.saving
        /\ s \in Reviews!NEXT_STATUSES(ui.request.status)
        /\ ui' = [ui EXCEPT !.saving = TRUE] /\ srv' = srv
        /\ net' = Reviews!Sent(net, "decide", [status |-> s, comment |-> ui.comment,
                                               revision |-> ui.request.revision])
        /\ hist' = [hist EXCEPT !.clicks = @ + 1,
                                !.apart = hist.apart \/ Reviews!InFlight(net, "load")]
  BY DEF Reviews!handleStatusChange, Reviews!MayDecide
<1>3. PICK a : a = [status |-> s, comment |-> ui.comment, revision |-> ui.request.revision]
  OBVIOUS
<1>4. PICK c : c = hist.clicks + 1
  OBVIOUS
<1>5. hist' = [hist EXCEPT !.clicks = c, !.apart = yes]
  BY <1>1, <1>2, <1>4
<1>6. PICK last : Asks(net, net', last, "decide", a)
  BY <1>2, <1>3, ProperSent, ReviewsCalls DEF ReviewsInv, ReviewsNet
<1>7. ReviewsUi(ui') /\ ui'.saving = TRUE /\ ui'.request = ui.request
  BY <1>2 DEF ReviewsInv, ReviewsUi
<1>8. ReviewsPast(hist') /\ hist'.apart = yes
  BY <1>5 DEF ReviewsInv, ReviewsPast
<1>9. ReviewsNet(net', TRUE)
  BY <1>2, <1>6 DEF Asks, ReviewsInv, ReviewsNet, Verdict
<1>10. ASSUME ~ yes PROVE NobodyElse(net', ui', srv)
  <2>1. ~ hist.apart /\ DOMAIN net = {}
    BY <1>1, <1>2, <1>10 DEF ReviewsInv, ReviewsNet, Verdict, Reviews!InFlight
  <2>2. Behind(ui.request, srv)
    BY <1>2, <2>1 DEF ReviewsInv, NobodyElse
  <2>3. ui.request.status \in Decidable
    BY <1>2 DEF Reviews!NEXT_STATUSES, Decidable
  <2>4. Stands(a.revision, srv)
    BY <1>3, <2>2, <2>3 DEF Behind
  <2>5. /\ DOMAIN net' = {last} /\ net'[last].kind = "decide" /\ net'[last].arg = a
        /\ ~ net'[last].ok
    BY <1>6, <2>1 DEF Asks
  <2> QED BY <1>7, <2>2, <2>4, <2>5 DEF NobodyElse, Verdict, Look
<1> QED BY <1>2, <1>7, <1>8, <1>9, <1>10 DEF ReviewsInv

\* A decision that was made is read again, one that was not changed nothing.
LEMMA ReviewsDecided ==
  ASSUME ReviewsInv, Reviews!DecisionAnswered PROVE ReviewsInv'
<1>1. PICK i \in DOMAIN net :
        /\ net[i].kind = "decide" /\ net[i].stage = "answered"
        /\ ui' = [ui EXCEPT !.saving = FALSE] /\ UNCHANGED <<srv, hist>>
        /\ net' = IF net[i].ok THEN Sent(Settled(net, i), "load", None) ELSE Settled(net, i)
  BY ReviewsCalls DEF Reviews!DecisionAnswered, Reviews!Answered, Reviews!ReadAgain
<1>2. PICK m : m = Settled(net, i)
  OBVIOUS
<1>3. Settles(net, m, i) /\ ReviewsNet(net, ui.saving)
  BY <1>1, <1>2, ProperSettled DEF ReviewsInv, ReviewsNet
<1>4. /\ ReviewsNet(m, FALSE)
      /\ (\A j, k \in DOMAIN net : j = k) => DOMAIN m = {}
  BY <1>1, <1>3 DEF Settles, ReviewsNet, Verdict
<1>5. ReviewsUi(ui') /\ ui'.saving = FALSE /\ ui'.request = ui.request
  BY <1>1 DEF ReviewsInv, ReviewsUi
<1>6. CASE net[i].ok
  <2>1. PICK last : Asks(m, net', last, "load", None)
    BY <1>1, <1>2, <1>4, <1>6, ProperSent DEF ReviewsNet
  <2>2. ReviewsNet(net', FALSE)
    BY <1>4, <2>1 DEF Asks, ReviewsNet, Verdict
  <2>3. ~ hist.apart => NobodyElse(net', ui', srv)
    BY <1>4, <2>1 DEF Asks, ReviewsInv, NobodyElse, Verdict, Look
  <2> QED BY <1>1, <1>5, <2>2, <2>3 DEF ReviewsInv
<1>7. CASE ~ net[i].ok
  <2>1. ASSUME ~ hist.apart PROVE NobodyElse(m, ui', srv)
    <3>1. \A j, k \in DOMAIN net : j = k
      BY <2>1 DEF ReviewsInv, NobodyElse
    <3>2. ui.request # None => Behind(ui.request, srv)
      BY <1>1, <1>7, <2>1, <3>1 DEF ReviewsInv, NobodyElse
    <3> QED BY <1>4, <1>5, <3>1, <3>2 DEF NobodyElse, Verdict, Look
  <2> QED BY <1>1, <1>2, <1>4, <1>5, <1>7, <2>1 DEF ReviewsInv
<1> QED BY <1>6, <1>7

LEMMA ReviewsNext ==
  ASSUME ReviewsInv, [Reviews!Next]_(Reviews!vars) PROVE ReviewsInv'
<1>1. CASE UNCHANGED Reviews!vars
  BY <1>1 DEF Reviews!vars, ReviewsInv
<1> QED BY <1>1, ReviewsBackend, ReviewsOrganizer, ReviewsElsewhere, ReviewsLoaded, ReviewsTyped,
           ReviewsDecides, ReviewsDecided DEF Reviews!Next

\* A manager decides on a revision that was on screen, with no other manager, lost
\* answer or early click in between: what the organizer submits later is never
\* decided on by a click on the revision before it.
THEOREM DecidedAsSeen == Reviews!Spec => []Reviews!DecidesWhatWasSeen
<1>1. ReviewsInv => Reviews!DecidesWhatWasSeen
  BY DEF ReviewsInv, ReviewsPast, Reviews!DecidesWhatWasSeen
<1> QED BY <1>1, ReviewsInit, ReviewsNext, PTL DEF Reviews!Spec
=============================================================================
