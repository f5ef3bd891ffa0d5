------------------------------ MODULE MCDelivery ------------------------------
EXTENDS Delivery

CONSTANTS e1, p1, p2, r1

\* A webhooks.yaml with no plugin, and one with both in file order.
TwoPlugins == {<<>>, <<p1, p2>>}

OnePlugin == {<<>>, <<p1>>}
==============================================================================
