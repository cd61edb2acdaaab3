------------------------ MODULE MCStatefulSetRollout ------------------------
EXTENDS StatefulSetRolloutProperties
=============================================================================
