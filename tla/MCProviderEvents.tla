-------------------------- MODULE MCProviderEvents --------------------------
EXTENDS ProviderEvents

Body(r, event, payment, amount, kind) ==
    [request |-> r, event |-> event, payment |-> payment, amount |-> amount, kind |-> kind]

\* One invoice and one request for a part of it.
OneOriginal == <<4>>
OneInvoice == <<1>>
OneRequested == <<3>>

\* A part of the request, and the rest.
TwoMessages ==
    << Body(1, 1, 1, 1, "PARTIALLY_PAID"), Body(1, 2, 2, 2, "PAID") >>

\* Two parts of the request, and what either of them leaves.
ThreeMessages ==
    << Body(1, 1, 1, 1, "PARTIALLY_PAID"),
       Body(1, 2, 2, 1, "PARTIALLY_PAID"),
       Body(1, 3, 3, 2, "PAID") >>
=============================================================================
