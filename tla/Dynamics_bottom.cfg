CONSTANTS
  Size = 40
  Inertia = 4
  Drag = 2
  Area = 5
  Scale = 2
  Threshold = 2
  Step = 4
  Diag = 3
  MaxForce = 10
  Windows = {3, 4, 5, 24, 80, 200}
SPECIFICATION Spec
PROPERTY PutBackInside
