----------------------------- MODULE MCPayments -----------------------------
(* Small instances of Payments for TLC: one bill, and who acts on it.      *)
EXTENDS Payments, TLC

(* Two webhooks at work on one payment, and money by hand: in one history  *)
(* either the one happens or the other, which keeps the instance small.    *)
WebhooksMeet == crossed # {} \/ \E g, h \in Handlers : g # h /\ "idle" \notin {pc[g], pc[h]}

MoneyByHand == \E p \in ByHand : row[p] # "none" \/ \E a \in Actors : item[a] = p

InScope == ~(WebhooksMeet /\ MoneyByHand)

StaysInScope == InScope'

Symmetry == Permutations(Handlers)
=============================================================================
