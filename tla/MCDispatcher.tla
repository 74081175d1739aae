----------------------------- MODULE MCDispatcher -----------------------------
(* A small instance of Dispatcher. *)
EXTENDS Dispatcher

CONSTANTS Retry, Dunning, Growth

Fields(channels, discount) == [channels |-> channels, discount |-> discount]

\* Two agents race; then one of them gives way to a third and another loses its
\* channels; then the event is not mapped any more, though others are, and the
\* agents it had are undefined.
First == [defs |-> [a \in {Retry, Dunning} |->
                      IF a = Retry THEN Fields(<<"sms", "whatsapp">>, 0)
                                   ELSE Fields(<<"email">>, 10)],
          wmap |-> <<Retry, Dunning>>, maps |-> TRUE]

Second == [defs |-> [a \in {Dunning, Growth} |->
                       IF a = Growth THEN Fields(<<"in_app", "email">>, 0)
                                     ELSE Fields(<<>>, 0)],
           wmap |-> <<Growth, Dunning>>, maps |-> TRUE]

Third == [defs |-> [a \in {Growth} |-> Fields(<<"push">>, 0)], wmap |-> <<>>,
          maps |-> TRUE]

Unreadable == [defs |-> [a \in {} |-> Fields(<<>>, 0)], wmap |-> <<>>, maps |-> FALSE]

Edits == <<First, Second, Third, Unreadable>>

\* One who never converted, which counts as a probability of 30%, and one whose
\* risk of churn costs more than a small order brings.
Customers == {[ltv |-> 100, conversion |-> 0, sensitivity |-> 40],
              [ltv |-> 20000, conversion |-> 50, sensitivity |-> 0]}

Amounts == {0, 50}

Discounts == {0, 6000}

Confidences == {90}
===============================================================================
