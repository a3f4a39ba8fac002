-------------------------- MODULE MCCommunication ---------------------------
EXTENDS Communication

CONSTANTS client, freelancer, t1, t2, w1, w2

MCMembers == {client, freelancer}
\* Two senders at once; one who writes to a page; one who writes to an API
\* client; and a message and the workers it gives something to do.
MCRoles == {
  [writers |-> {client, freelancer}, pages |-> {}, workers |-> {}, messages |-> 2],
  [writers |-> {client}, pages |-> {freelancer}, workers |-> {}, messages |-> 2],
  [writers |-> {client}, pages |-> {}, workers |-> {}, messages |-> 2],
  [writers |-> {client, freelancer}, pages |-> {}, workers |-> {w1, w2}, messages |-> 1]}
MCPageRoles ==
  {[writers |-> {client}, pages |-> {freelancer}, workers |-> {}, messages |-> 1]}

MCThreads == {t1, t2}
MCWorkers == {w1, w2}
=============================================================================
